---------------------------- MODULE Spec2Model ----------------------------
(***************************************************************************)
(* A model of the scoring and aggregation engine of MyParlai:              *)
(*   - src/parlay.py            odds arithmetic on BetSelection lists      *)
(*   - src/models/parlay.py     the ParlayLeg / Parlay aggregate           *)
(*   - src/models/matchup.py    Odds.get_implied_probability               *)
(*   - src/analysis/factors.py  FactorAnalysis and FactorAnalyzer          *)
(*   - src/analysis/predictor.py ParlayPredictor                           *)
(*                                                                         *)
(* Python floats are modelled as exact rationals <<n, d>> (d > 0, lowest   *)
(* terms).  Where the code truncates, compares or rounds a float that      *)
(* stands for an exact rational, the sign of the accumulated binary        *)
(* rounding error decides the outcome on a boundary (int(114.99999999) is  *)
(* 114); that sign is the parameter e in FloatErr, chosen by the caller.   *)
(***************************************************************************)
EXTENDS Integers, Sequences, FiniteSets, TLC

(***************************************************************************)
(* Bounds of the model.                                                    *)
(***************************************************************************)
MaxOdds == 260

MaxSelections == 2

MaxFactors == 3

MaxTopN == 4

MaxMatchups == 2

MaxLegs == 3

MaxTicks == 3

(***************************************************************************)
(* Exact rational arithmetic.                                              *)
(***************************************************************************)
Abs(x) == IF x < 0 THEN -x ELSE x

Sign(x) == IF x < 0 THEN -1 ELSE IF x > 0 THEN 1 ELSE 0

RECURSIVE GCD(_, _)
GCD(a, b) == IF b = 0 THEN a ELSE GCD(b, a % b)

\* The value of a division by zero: Python raises ZeroDivisionError there.
\* Every operation on it gives it again (the denominator stays 0), so a
\* result that holds it stands for a call that raised.
ZeroDivisionError == <<0, 0>>

Rat(n, d) ==
    IF d = 0 THEN ZeroDivisionError
    ELSE LET g == GCD(Abs(n), Abs(d))
             s == IF d < 0 THEN -1 ELSE 1
         IN  <<(s * n) \div g, (s * d) \div g>>

RInt(k) == <<k, 1>>

RAdd(x, y) == Rat(x[1] * y[2] + y[1] * x[2], x[2] * y[2])

RSub(x, y) == Rat(x[1] * y[2] - y[1] * x[2], x[2] * y[2])

RMul(x, y) == Rat(x[1] * y[1], x[2] * y[2])

RDiv(x, y) == Rat(x[1] * y[2], x[2] * y[1])

RLt(x, y) == x[1] * y[2] < y[1] * x[2]

RLe(x, y) == x[1] * y[2] <= y[1] * x[2]

RAbs(x) == <<Abs(x[1]), x[2]>>

RMax(x, y) == IF RLt(x, y) THEN y ELSE x

RMin(x, y) == IF RLt(y, x) THEN y ELSE x

(***************************************************************************)
(* Float behaviour on a boundary.  e = -1: the float lies just below the   *)
(* exact value, e = 1: just above, e = 0: the float is exact.              *)
(***************************************************************************)
FloatErr == {-1, 0, 1}

RECURSIVE PowerOfTwo(_)
PowerOfTwo(d) == d = 1 \/ (d % 2 = 0 /\ PowerOfTwo(d \div 2))

\* A rational of this size whose denominator is a power of two is a float:
\* its float carries no error.
Dyadic(x) == PowerOfTwo(x[2])

\* The side on which the float of x lies, when e is the side an inexact float
\* would lie on.
FloatSide(x, e) == IF Dyadic(x) THEN 0 ELSE e

\* Python int(y): truncation toward zero of the float standing for y.
IntOf(y, e) ==
    LET n == y[1]
        d == y[2]
        t == IF n >= 0 THEN n \div d ELSE -((-n) \div d)
    IN  IF n % d = 0 /\ n # 0 /\ e = -Sign(n) THEN t - Sign(n) ELSE t

\* Python round(x, 2), as a rational with denominator dividing 100: nearest
\* hundredth, an exact tie going to the even hundredth (e = 0) or to the side
\* on which the float lies.
Round2(x, e) ==
    LET n100 == x[1] * 100
        q == n100 \div x[2]
        r == n100 % x[2]
        k == IF 2 * r < x[2] THEN q
             ELSE IF 2 * r > x[2] THEN q + 1
             ELSE IF e < 0 THEN q
             ELSE IF e > 0 THEN q + 1
             ELSE IF q % 2 = 0 THEN q ELSE q + 1
    IN  Rat(k, 100)

(***************************************************************************)
(* src/parlay.py: the selection-based Parlay.  A selection is a record of  *)
(* its game_id and odds; a method gives the parlay it leaves and the value *)
(* it returns ("True", "False", or "None" for a method without a result).  *)
(***************************************************************************)
SelectionParlay(selections, stake) == [selections |-> selections, stake |-> stake]

MethodResult(parlay, returned) == [parlay |-> parlay, returned |-> returned]

\* Mutant of add_selection: the check for the game is skipped.
add_selection_no_check(parlay, selection) ==
    MethodResult([parlay EXCEPT !.selections = Append(@, selection)], "True")

add_selection(parlay, selection) ==
    IF \E i \in 1..Len(parlay.selections) :
           parlay.selections[i].game_id = selection.game_id
    THEN MethodResult(parlay, "False")
    ELSE MethodResult([parlay EXCEPT !.selections = Append(@, selection)], "True")

\* list.pop(index) for 0 <= index < len.
Pop(seq, index) == SubSeq(seq, 1, index) \o SubSeq(seq, index + 2, Len(seq))

\* Mutant of remove_selection: only the upper limit of the index is tested,
\* and list.pop counts a negative index from the end.
remove_selection_no_lower_limit(parlay, index) ==
    IF index < Len(parlay.selections) /\ index + Len(parlay.selections) >= 0
    THEN MethodResult(
             [parlay EXCEPT !.selections =
                 Pop(@, IF index < 0 THEN index + Len(@) ELSE index)],
             "True")
    ELSE MethodResult(parlay, "False")

remove_selection(parlay, index) ==
    IF 0 <= index /\ index < Len(parlay.selections)
    THEN MethodResult([parlay EXCEPT !.selections = Pop(@, index)], "True")
    ELSE MethodResult(parlay, "False")

clear(parlay) == MethodResult([parlay EXCEPT !.selections = <<>>], "None")

\* Mutant of set_stake: the stake is stored as given.
set_stake_as_given(parlay, stake) ==
    MethodResult([parlay EXCEPT !.stake = stake], "None")

set_stake(parlay, stake) ==
    MethodResult([parlay EXCEPT !.stake = RMax(RInt(0), stake)], "None")

(***************************************************************************)
(* src/parlay.py: odds arithmetic.  A call returns a record; raised names  *)
(* the exception the call ends with ("" when it returns normally).         *)
(***************************************************************************)
\* american_to_decimal divides by abs(american_odds): odds of 0 raise.
american_to_decimal(american_odds) ==
    IF american_odds > 0
    THEN RAdd(Rat(american_odds, 100), RInt(1))
    ELSE RAdd(Rat(100, Abs(american_odds)), RInt(1))

\* Mutant of decimal_to_american: the favourite branch divides by the decimal
\* odds instead of by (decimal_odds - 1).
decimal_to_american_no_minus_one(decimal_odds, e) ==
    IF RLt(RInt(2), decimal_odds) \/ (decimal_odds = RInt(2) /\ e >= 0)
    THEN [raised |-> "",
          value |-> IntOf(RMul(RSub(decimal_odds, RInt(1)), RInt(100)), e)]
    ELSE IF decimal_odds = RInt(1)
    THEN [raised |-> "ZeroDivisionError", value |-> 0]
    ELSE [raised |-> "", value |-> IntOf(RDiv(RInt(-100), decimal_odds), e)]

\* The comparison with 2.0 and both truncations act on the float; -100 / 0.0
\* raises ZeroDivisionError.
decimal_to_american(decimal_odds, e) ==
    IF RLt(RInt(2), decimal_odds) \/ (decimal_odds = RInt(2) /\ e >= 0)
    THEN [raised |-> "",
          value |-> IntOf(RMul(RSub(decimal_odds, RInt(1)), RInt(100)), e)]
    ELSE IF decimal_odds = RInt(1)
    THEN [raised |-> "ZeroDivisionError", value |-> 0]
    ELSE [raised |-> "",
          value |-> IntOf(RDiv(RInt(-100), RSub(decimal_odds, RInt(1))), e)]

\* Mutant of calculate_implied_probability: abs() forgotten in the numerator.
calculate_implied_probability_no_abs(american_odds) ==
    IF american_odds > 0
    THEN Rat(100, american_odds + 100)
    ELSE Rat(american_odds, Abs(american_odds) + 100)

calculate_implied_probability(american_odds) ==
    IF american_odds > 0
    THEN Rat(100, american_odds + 100)
    ELSE Rat(Abs(american_odds), Abs(american_odds) + 100)

\* The loop of calculate_parlay_odds: combined_decimal *= decimal_odds.
RECURSIVE CombinedDecimal(_)
CombinedDecimal(selections) ==
    IF selections = <<>> THEN RInt(1)
    ELSE RMul(CombinedDecimal(SubSeq(selections, 1, Len(selections) - 1)),
              american_to_decimal(selections[Len(selections)].odds))

\* The loop of calculate_parlay_odds: combined_probability *= implied.
RECURSIVE CombinedProbability(_)
CombinedProbability(selections) ==
    IF selections = <<>> THEN RInt(1)
    ELSE RMul(CombinedProbability(SubSeq(selections, 1, Len(selections) - 1)),
              calculate_implied_probability(selections[Len(selections)].odds))

OddsInfo(raised, decimal_odds, american_odds, implied_probability) ==
    [raised |-> raised, decimal_odds |-> decimal_odds,
     american_odds |-> american_odds,
     implied_probability |-> implied_probability]

\* e is the side of the float of the decimal product, e2 the side of the float
\* of the probability product.
calculate_parlay_odds(selections, e, e2) ==
    IF selections = <<>> THEN OddsInfo("", RInt(0), 0, RInt(0))
    ELSE IF \E i \in 1..Len(selections) : selections[i].odds = 0
    THEN OddsInfo("ZeroDivisionError", RInt(0), 0, RInt(0))
    ELSE LET combined_decimal == CombinedDecimal(selections)
             combined_probability == CombinedProbability(selections)
             \* the product of floats is exact when every factor is
             f == IF \A i \in 1..Len(selections) :
                        Dyadic(american_to_decimal(selections[i].odds))
                  THEN 0 ELSE e
             g == IF \A i \in 1..Len(selections) :
                        Dyadic(calculate_implied_probability(selections[i].odds))
                  THEN 0 ELSE e2
             combined_american == decimal_to_american(combined_decimal, f)
         IN  OddsInfo(combined_american.raised,
                      Round2(combined_decimal, f),
                      combined_american.value,
                      Round2(RMul(combined_probability, RInt(100)), g))

PayoutInfo(raised, total_payout, profit) ==
    [raised |-> raised, total_payout |-> total_payout, profit |-> profit]

\* Mutant of calculate_payout: the guard forgets the stake.
calculate_payout_no_stake_guard(stake, selections, e, e2) ==
    IF selections = <<>>
    THEN PayoutInfo("", RInt(0), RInt(0))
    ELSE LET odds_info == calculate_parlay_odds(selections, e, 0)
             total_payout == RMul(stake, odds_info.decimal_odds)
             profit == RSub(total_payout, stake)
         IN  IF odds_info.raised # ""
             THEN PayoutInfo(odds_info.raised, RInt(0), RInt(0))
             ELSE PayoutInfo("", Round2(total_payout, FloatSide(total_payout, e2)),
                             Round2(profit, FloatSide(profit, e2)))

\* e is the side of the float of the decimal product, e2 the side of the floats
\* of stake * decimal_odds and of the profit.
calculate_payout(stake, selections, e, e2) ==
    IF selections = <<>> \/ RLe(stake, RInt(0))
    THEN PayoutInfo("", RInt(0), RInt(0))
    ELSE LET odds_info == calculate_parlay_odds(selections, e, 0)
             total_payout == RMul(stake, odds_info.decimal_odds)
             profit == RSub(total_payout, stake)
         IN  IF odds_info.raised # ""
             THEN PayoutInfo(odds_info.raised, RInt(0), RInt(0))
             ELSE PayoutInfo("", Round2(total_payout, FloatSide(total_payout, e2)),
                             Round2(profit, FloatSide(profit, e2)))

(***************************************************************************)
(* src/models/parlay.py: ParlayLeg and the Parlay aggregate; and           *)
(* src/models/matchup.py: Odds.get_implied_probability.                    *)
(***************************************************************************)
ParlayLeg_implied_probability(odds) ==
    IF odds > 0
    THEN Rat(100, odds + 100)
    ELSE Rat(Abs(odds), Abs(odds) + 100)

ParlayLeg_decimal_odds(odds) ==
    IF odds > 0
    THEN RAdd(Rat(odds, 100), RInt(1))
    ELSE RAdd(Rat(100, Abs(odds)), RInt(1))

Odds_get_implied_probability(odds) ==
    IF odds > 0
    THEN Rat(100, odds + 100)
    ELSE Rat(Abs(odds), Abs(odds) + 100)

RECURSIVE LegsProduct(_)
LegsProduct(legs) ==
    IF legs = <<>> THEN RInt(1)
    ELSE RMul(LegsProduct(SubSeq(legs, 1, Len(legs) - 1)),
              ParlayLeg_decimal_odds(legs[Len(legs)].odds))

Parlay_total_odds(legs) ==
    IF legs = <<>> THEN RInt(1) ELSE LegsProduct(legs)

Parlay_potential_payout(legs, stake) == RMul(stake, Parlay_total_odds(legs))

Parlay_potential_profit(legs, stake) ==
    RSub(Parlay_potential_payout(legs, stake), stake)

RECURSIVE ConfidenceProduct(_)
ConfidenceProduct(legs) ==
    IF legs = <<>> THEN RInt(1)
    ELSE RMul(ConfidenceProduct(SubSeq(legs, 1, Len(legs) - 1)),
              legs[Len(legs)].confidence_score)

Parlay_implied_win_probability(legs) ==
    IF legs = <<>> THEN RInt(0) ELSE ConfidenceProduct(legs)

Parlay_get_american_odds(legs, e) ==
    LET decimal == Parlay_total_odds(legs)
        f == IF \A i \in 1..Len(legs) : Dyadic(ParlayLeg_decimal_odds(legs[i].odds))
             THEN 0 ELSE e
    IN  IF RLt(RInt(2), decimal) \/ (decimal = RInt(2) /\ f >= 0)
        THEN IntOf(RMul(RSub(decimal, RInt(1)), RInt(100)), f)
        ELSE IF RLt(RInt(1), decimal)
        THEN IntOf(RDiv(RInt(-100), RSub(decimal, RInt(1))), f)
        ELSE 0

(***************************************************************************)
(* src/models/team.py, injury.py, weather.py, matchup.py: the parts of a   *)
(* Matchup that the analysis reads.  An optional attribute (weather, an    *)
(* injury report) is a record with a present flag; the object itself is    *)
(* always truthy when present.                                             *)
(***************************************************************************)
\* Mutant of win_percentage: no test for a team without games.
win_percentage_no_guard(stats) ==
    Rat(stats.wins, stats.wins + stats.losses + stats.ties)

win_percentage(stats) ==
    LET total == stats.wins + stats.losses + stats.ties
    IN  IF total = 0 THEN RInt(0) ELSE Rat(stats.wins, total)

is_likely_out(injury) == injury.status \in {"out", "doubtful", "injured_reserve"}

is_uncertain(injury) == injury.status \in {"questionable", "day-to-day"}

RECURSIVE ImpactSum(_)
ImpactSum(injuries) ==
    IF injuries = <<>> THEN RInt(0)
    ELSE LET inj == Head(injuries)
             part == IF is_likely_out(inj) THEN inj.impact_score
                     ELSE IF is_uncertain(inj)
                     THEN RMul(inj.impact_score, Rat(1, 2))
                     ELSE RInt(0)
         IN  RAdd(part, ImpactSum(Tail(injuries)))

get_total_impact(report) == RMin(ImpactSum(report.injuries), RInt(1))

affects_gameplay(weather) ==
    IF weather.is_dome THEN FALSE
    ELSE \/ weather.wind_speed > 15
         \/ weather.temperature < 32
         \/ weather.temperature > 90
         \/ weather.precipitation_chance > 50

total_games(h2h) == h2h.home_wins + h2h.away_wins + h2h.ties

\* str.upper() on the sport names that occur.
Upper(sport) ==
    IF sport = "nfl" THEN "NFL"
    ELSE IF sport = "nba" THEN "NBA"
    ELSE sport

(***************************************************************************)
(* src/analysis/factors.py: Factor, FactorAnalysis, FactorAnalyzer.        *)
(***************************************************************************)
Factor(name, value, weight) == [name |-> name, value |-> value, weight |-> weight]

weighted_value(f) == RMul(f.value, f.weight)

\* FactorAnalysis(matchup_id=...): the dataclass defaults.
FactorAnalysis(matchup_id) ==
    [matchup_id |-> matchup_id, factors |-> <<>>, home_score |-> RInt(0),
     away_score |-> RInt(0), predicted_winner |-> "None",
     confidence |-> Rat(1, 2)]

\* Mutant of add_factor: abs() forgotten on the away side.
add_factor_no_abs(analysis, factor) ==
    LET wv == weighted_value(factor)
    IN  IF RLt(RInt(0), wv)
        THEN [analysis EXCEPT !.factors = Append(@, factor),
                              !.home_score = RAdd(@, wv)]
        ELSE [analysis EXCEPT !.factors = Append(@, factor),
                              !.away_score = RAdd(@, wv)]

add_factor(analysis, factor) ==
    LET wv == weighted_value(factor)
    IN  IF RLt(RInt(0), wv)
        THEN [analysis EXCEPT !.factors = Append(@, factor),
                              !.home_score = RAdd(@, wv)]
        ELSE [analysis EXCEPT !.factors = Append(@, factor),
                              !.away_score = RAdd(@, RAbs(wv))]

\* Mutant of calculate_prediction: the winning side's raw share is reported,
\* without the scaling and without the final clamp.
calculate_prediction_raw_ratio(analysis) ==
    LET total == RAdd(analysis.home_score, analysis.away_score)
    IN  IF total = RInt(0)
        THEN [analysis EXCEPT !.confidence = Rat(1, 2)]
        ELSE LET max_score == RMax(analysis.home_score, analysis.away_score)
             IN  [analysis EXCEPT !.confidence = RDiv(max_score, total)]

\* Mutant of calculate_prediction: the winning side's share above one half
\* is not scaled down by 0.8.
calculate_prediction_unscaled(analysis) ==
    LET total == RAdd(analysis.home_score, analysis.away_score)
    IN  IF total = RInt(0)
        THEN [analysis EXCEPT !.confidence = Rat(1, 2)]
        ELSE LET max_score == RMax(analysis.home_score, analysis.away_score)
                 base_ratio == RDiv(max_score, total)
                 scaled == RAdd(Rat(1, 2), RSub(base_ratio, Rat(1, 2)))
             IN  [analysis EXCEPT
                    !.confidence = RMin(RMax(scaled, Rat(1, 2)), Rat(95, 100))]

calculate_prediction(analysis) ==
    LET total == RAdd(analysis.home_score, analysis.away_score)
    IN  IF total = RInt(0)
        THEN [analysis EXCEPT !.confidence = Rat(1, 2)]
        ELSE LET max_score == RMax(analysis.home_score, analysis.away_score)
                 base_ratio == RDiv(max_score, total)
                 scaled == RAdd(Rat(1, 2),
                                RMul(RSub(base_ratio, Rat(1, 2)), Rat(8, 10)))
             IN  [analysis EXCEPT
                    !.confidence = RMin(RMax(scaled, Rat(1, 2)), Rat(95, 100))]

DEFAULT_WEIGHTS ==
    [team_record |-> Rat(20, 100), head_to_head |-> Rat(10, 100),
     injuries |-> Rat(15, 100), home_advantage |-> Rat(10, 100),
     weather |-> Rat(10, 100), recent_form |-> Rat(15, 100),
     rest_days |-> Rat(10, 100), matchup_specific |-> Rat(10, 100)]

analyze_team_records(matchup) ==
    LET home_pct == win_percentage(matchup.home_team.stats)
        away_pct == win_percentage(matchup.away_team.stats)
    IN  Factor("team_record", RSub(home_pct, away_pct),
               DEFAULT_WEIGHTS.team_record)

analyze_head_to_head(matchup) ==
    LET h2h == matchup.head_to_head
        total == total_games(h2h)
    IN  IF total = 0
        THEN Factor("head_to_head", RInt(0), DEFAULT_WEIGHTS.head_to_head)
        ELSE LET diff == RSub(Rat(h2h.home_wins, total),
                              Rat(h2h.away_wins, total))
             IN  Factor("head_to_head", RMul(diff, Rat(1, 2)),
                        DEFAULT_WEIGHTS.head_to_head)

analyze_injuries(matchup) ==
    LET home_impact == IF matchup.home_injuries.present
                       THEN get_total_impact(matchup.home_injuries)
                       ELSE RInt(0)
        away_impact == IF matchup.away_injuries.present
                       THEN get_total_impact(matchup.away_injuries)
                       ELSE RInt(0)
    IN  Factor("injuries", RSub(away_impact, home_impact),
               DEFAULT_WEIGHTS.injuries)

sport_advantage(sport) ==
    CASE sport = "NFL" -> Rat(8, 100)
      [] sport = "NBA" -> Rat(6, 100)
      [] sport = "MLB" -> Rat(4, 100)
      [] sport = "NHL" -> Rat(5, 100)
      [] sport = "NCAAF" -> Rat(10, 100)
      [] sport = "NCAAB" -> Rat(8, 100)
      [] OTHER -> Rat(5, 100)

analyze_home_advantage(matchup) ==
    IF matchup.is_neutral_site
    THEN Factor("home_advantage", RInt(0), DEFAULT_WEIGHTS.home_advantage)
    ELSE Factor("home_advantage", sport_advantage(Upper(matchup.sport)),
                DEFAULT_WEIGHTS.home_advantage)

\* Both branches (dome or not) give the value 0.0.
\* Mutant of analyze_weather: open-air weather that affects gameplay counts
\* against the home team.
analyze_weather_penalty(matchup) ==
    IF ~matchup.weather.is_dome /\ affects_gameplay(matchup.weather)
    THEN Factor("weather", Rat(-1, 10), DEFAULT_WEIGHTS.weather)
    ELSE Factor("weather", RInt(0), DEFAULT_WEIGHTS.weather)

analyze_weather(matchup) == Factor("weather", RInt(0), DEFAULT_WEIGHTS.weather)

analyze_recent_form(matchup) ==
    LET home_form == RMin(RMax(Rat(matchup.home_team.stats.streak, 5), RInt(-1)),
                          RInt(1))
        away_form == RMin(RMax(Rat(matchup.away_team.stats.streak, 5), RInt(-1)),
                          RInt(1))
    IN  Factor("recent_form", RMul(RSub(home_form, away_form), Rat(1, 2)),
               DEFAULT_WEIGHTS.recent_form)

\* analyze, lines 119-120: the weather factor is added only when the matchup
\* has weather.
AddWeatherFactor(analysis, matchup) ==
    IF matchup.weather.present
    THEN add_factor(analysis, analyze_weather(matchup))
    ELSE analysis

\* Mutant of SetPredictedWinner: equal scores give the home team.
SetPredictedWinner_ties_home(analysis, matchup) ==
    [analysis EXCEPT !.predicted_winner =
                       IF RLe(analysis.away_score, analysis.home_score)
                       THEN matchup.home_team.id
                       ELSE matchup.away_team.id]

\* analyze, lines 127-131: equal scores give the away team.
SetPredictedWinner(analysis, matchup) ==
    [analysis EXCEPT !.predicted_winner =
                       IF RLt(analysis.away_score, analysis.home_score)
                       THEN matchup.home_team.id
                       ELSE matchup.away_team.id]

analyze(matchup) ==
    SetPredictedWinner(
      calculate_prediction(
        add_factor(
          AddWeatherFactor(
            add_factor(
              add_factor(
                add_factor(
                  add_factor(FactorAnalysis(matchup.id),
                             analyze_team_records(matchup)),
                  analyze_head_to_head(matchup)),
                analyze_injuries(matchup)),
              analyze_home_advantage(matchup)),
            matchup),
          analyze_recent_form(matchup))),
      matchup)

\* sorted(..., key=abs(weighted_value), reverse=True) is stable: a factor
\* goes after every factor already placed whose key is at least its own.
RECURSIVE InsertByImpact(_, _)
InsertByImpact(sorted, f) ==
    IF sorted = <<>> THEN <<f>>
    ELSE IF RLt(RAbs(weighted_value(Head(sorted))), RAbs(weighted_value(f)))
    THEN <<f>> \o sorted
    ELSE <<Head(sorted)>> \o InsertByImpact(Tail(sorted), f)

RECURSIVE SortByImpact(_)
SortByImpact(factors) ==
    IF factors = <<>> THEN <<>>
    ELSE InsertByImpact(SortByImpact(SubSeq(factors, 1, Len(factors) - 1)),
                        factors[Len(factors)])

\* Python seq[:n]: n >= 0 keeps the first n elements, n < 0 drops the last -n.
SliceTo(seq, n) ==
    IF n >= 0
    THEN SubSeq(seq, 1, IF n < Len(seq) THEN n ELSE Len(seq))
    ELSE SubSeq(seq, 1, IF Len(seq) + n > 0 THEN Len(seq) + n ELSE 0)

\* Mutant of get_key_factors: abs() forgotten in the sort key.
RECURSIVE InsertBySignedValue(_, _)
InsertBySignedValue(sorted, f) ==
    IF sorted = <<>> THEN <<f>>
    ELSE IF RLt(weighted_value(Head(sorted)), weighted_value(f))
    THEN <<f>> \o sorted
    ELSE <<Head(sorted)>> \o InsertBySignedValue(Tail(sorted), f)

RECURSIVE SortBySignedValue(_)
SortBySignedValue(factors) ==
    IF factors = <<>> THEN <<>>
    ELSE InsertBySignedValue(
             SortBySignedValue(SubSeq(factors, 1, Len(factors) - 1)),
             factors[Len(factors)])

get_key_factors_no_abs(analysis, top_n) ==
    SliceTo(SortBySignedValue(analysis.factors), top_n)

get_key_factors(analysis, top_n) ==
    SliceTo(SortByImpact(analysis.factors), top_n)

(***************************************************************************)
(* src/analysis/predictor.py: ParlayPredictor.  A leg carries the fields   *)
(* the aggregation reads; the free-text pick, reasoning and key-factor     *)
(* descriptions are formatted from them and are left out, as are the       *)
(* random id and the dated name of the Parlay.                             *)
(***************************************************************************)
\* CONFIDENCE_THRESHOLDS is iterated in insertion order: very_high, high,
\* medium, low (threshold 0.0); a negative score falls through to LOW.
\* Mutant of get_confidence_level: the thresholds are tried in ascending
\* order of the tiers medium, high, very_high.
get_confidence_level_ascending(score) ==
    IF RLt(score, Rat(50, 100)) THEN "low"
    ELSE IF RLe(Rat(50, 100), score) THEN "medium"
    ELSE IF RLe(Rat(60, 100), score) THEN "high"
    ELSE "very_high"

get_confidence_level(score) ==
    IF RLe(Rat(70, 100), score) THEN "very_high"
    ELSE IF RLe(Rat(60, 100), score) THEN "high"
    ELSE IF RLe(Rat(50, 100), score) THEN "medium"
    ELSE "low"

ParlayLeg(matchup_id, bet_type, odds, team_id, confidence, confidence_score) ==
    [matchup_id |-> matchup_id, bet_type |-> bet_type, odds |-> odds,
     team_id |-> team_id, confidence |-> confidence,
     confidence_score |-> confidence_score]

\* Mutant of predict_spread: a spread of exactly -7 or +7 is penalised too.
predict_spread_inclusive(matchup, analysis) ==
    LET spread == matchup.odds.spread
        take_home == RLt(RInt(0), RSub(analysis.home_score, analysis.away_score))
        base_confidence ==
            IF take_home /\ RLe(spread, RInt(-7))
            THEN RMul(analysis.confidence, Rat(9, 10))
            ELSE IF ~take_home /\ RLe(RInt(7), spread)
            THEN RMul(analysis.confidence, Rat(9, 10))
            ELSE analysis.confidence
    IN  ParlayLeg(matchup.id, "spread", matchup.odds.spread_odds,
                  IF take_home THEN matchup.home_team.id
                  ELSE matchup.away_team.id,
                  get_confidence_level(base_confidence), base_confidence)

predict_spread(matchup, analysis) ==
    LET spread == matchup.odds.spread
        take_home == RLt(RInt(0), RSub(analysis.home_score, analysis.away_score))
        base_confidence ==
            IF take_home /\ RLt(spread, RInt(-7))
            THEN RMul(analysis.confidence, Rat(9, 10))
            ELSE IF ~take_home /\ RLt(RInt(7), spread)
            THEN RMul(analysis.confidence, Rat(9, 10))
            ELSE analysis.confidence
    IN  ParlayLeg(matchup.id, "spread", matchup.odds.spread_odds,
                  IF take_home THEN matchup.home_team.id
                  ELSE matchup.away_team.id,
                  get_confidence_level(base_confidence), base_confidence)

\* Mutant of predict_moneyline: the home team is taken on equal scores.
predict_moneyline_ties_home(matchup, analysis) ==
    LET take_home == RLe(analysis.away_score, analysis.home_score)
        base_confidence == analysis.confidence
    IN  ParlayLeg(matchup.id, "moneyline",
                  IF take_home THEN matchup.odds.moneyline_home
                  ELSE matchup.odds.moneyline_away,
                  IF take_home THEN matchup.home_team.id
                  ELSE matchup.away_team.id,
                  get_confidence_level(base_confidence), base_confidence)

predict_moneyline(matchup, analysis) ==
    LET take_home == RLt(analysis.away_score, analysis.home_score)
        base_confidence == analysis.confidence
    IN  ParlayLeg(matchup.id, "moneyline",
                  IF take_home THEN matchup.odds.moneyline_home
                  ELSE matchup.odds.moneyline_away,
                  IF take_home THEN matchup.home_team.id
                  ELSE matchup.away_team.id,
                  get_confidence_level(base_confidence), base_confidence)

\* Mutant of analyze_total: a team exactly at a points threshold counts as
\* an over indicator.
analyze_total_inclusive(matchup, analysis) ==
    LET offence(team) == IF team.stats.points_for >= 25 * 17 THEN 1 ELSE 0
        defence(team) == IF team.stats.points_against >= 23 * 17 THEN 1 ELSE 0
        weather == IF /\ matchup.weather.present
                      /\ ~matchup.weather.is_dome
                      /\ affects_gameplay(matchup.weather)
                   THEN 1 ELSE 0
        over_indicators == offence(matchup.home_team) + offence(matchup.away_team)
                           + defence(matchup.home_team)
                           + defence(matchup.away_team) - weather
    IN  over_indicators >= 2

analyze_total(matchup, analysis) ==
    LET offence(team) == IF team.stats.points_for > 25 * 17 THEN 1 ELSE 0
        defence(team) == IF team.stats.points_against > 23 * 17 THEN 1 ELSE 0
        weather == IF /\ matchup.weather.present
                      /\ ~matchup.weather.is_dome
                      /\ affects_gameplay(matchup.weather)
                   THEN 1 ELSE 0
        over_indicators == offence(matchup.home_team) + offence(matchup.away_team)
                           + defence(matchup.home_team)
                           + defence(matchup.away_team) - weather
    IN  over_indicators >= 2

\* A total leg has no team: team_id stays None.
predict_total(matchup, analysis) ==
    LET take_over == analyze_total(matchup, analysis)
        base_confidence == RMul(analysis.confidence, Rat(85, 100))
    IN  ParlayLeg(matchup.id, IF take_over THEN "over" ELSE "under",
                  IF take_over THEN matchup.odds.over_odds
                  ELSE matchup.odds.under_odds,
                  "None", get_confidence_level(base_confidence),
                  base_confidence)

\* Mutant of MaxByScore: of the candidates of largest score the last one is
\* kept.
RECURSIVE MaxByScore_last(_)
MaxByScore_last(candidates) ==
    IF Len(candidates) = 1 THEN candidates[1]
    ELSE LET front == MaxByScore_last(SubSeq(candidates, 1, Len(candidates) - 1))
             last == candidates[Len(candidates)]
         IN  IF RLe(front.confidence_score, last.confidence_score)
             THEN last ELSE front

\* max(candidates, key=confidence_score) keeps the first of the largest.
RECURSIVE MaxByScore(_)
MaxByScore(candidates) ==
    IF Len(candidates) = 1 THEN candidates[1]
    ELSE LET front == MaxByScore(SubSeq(candidates, 1, Len(candidates) - 1))
             last == candidates[Len(candidates)]
         IN  IF RLt(front.confidence_score, last.confidence_score)
             THEN last ELSE front

\* The candidates, or the empty list when no allowed type produced one
\* (_choose_best_bet then returns None and the matchup gives no leg).
choose_best_bet(matchup, analysis, allowed_types) ==
    LET c1 == IF "spread" \in allowed_types
              THEN <<predict_spread(matchup, analysis)>> ELSE <<>>
        c2 == IF "moneyline" \in allowed_types
              THEN <<predict_moneyline(matchup, analysis)>> ELSE <<>>
        total_leg == predict_total(matchup, analysis)
        c3 == IF /\ ("over" \in allowed_types \/ "under" \in allowed_types)
                 /\ total_leg.bet_type \in allowed_types
              THEN <<total_leg>> ELSE <<>>
        candidates == c1 \o c2 \o c3
    IN  IF candidates = <<>> THEN <<>> ELSE <<MaxByScore(candidates)>>

\* The (matchup, analysis) pairs whose confidence reaches min_confidence, in
\* the order of the matchups.
EligibleAnalyses(matchups, min_confidence) ==
    LET Confident(x) == RLe(min_confidence, x.analysis.confidence)
    IN  SelectSeq([i \in 1..Len(matchups) |->
                     [matchup |-> matchups[i], analysis |-> analyze(matchups[i])]],
                  Confident)

\* Mutant of InsertByConfidence: an entry goes before the entries of equal
\* confidence already placed.
RECURSIVE InsertByConfidence_before_equal(_, _)
InsertByConfidence_before_equal(sorted, x) ==
    IF sorted = <<>> THEN <<x>>
    ELSE IF RLe(Head(sorted).analysis.confidence, x.analysis.confidence)
    THEN <<x>> \o sorted
    ELSE <<Head(sorted)>> \o InsertByConfidence_before_equal(Tail(sorted), x)

\* list.sort(key=confidence, reverse=True) is stable.
RECURSIVE InsertByConfidence(_, _)
InsertByConfidence(sorted, x) ==
    IF sorted = <<>> THEN <<x>>
    ELSE IF RLt(Head(sorted).analysis.confidence, x.analysis.confidence)
    THEN <<x>> \o sorted
    ELSE <<Head(sorted)>> \o InsertByConfidence(Tail(sorted), x)

RECURSIVE SortByConfidence(_)
SortByConfidence(analyses) ==
    IF analyses = <<>> THEN <<>>
    ELSE InsertByConfidence(
             SortByConfidence(SubSeq(analyses, 1, Len(analyses) - 1)),
             analyses[Len(analyses)])

RECURSIVE BestLegs(_, _)
BestLegs(selected, bet_types) ==
    IF selected = <<>> THEN <<>>
    ELSE choose_best_bet(Head(selected).matchup, Head(selected).analysis,
                         bet_types)
         \o BestLegs(Tail(selected), bet_types)

\* generate_parlay, lines 195-196: bet_types defaults to spread and moneyline.
AllowedTypes(bet_types) ==
    IF bet_types.is_none THEN {"spread", "moneyline"} ELSE bet_types.types

\* Mutant of SportOf: the label is "mixed" whatever the sports are.
SportOf_always_mixed(sports) == "mixed"

\* generate_parlay, lines 216-218: the common sport of the selected matchups,
\* else "mixed".
SportOf(sports) ==
    IF Cardinality(sports) = 1 THEN CHOOSE s \in sports : TRUE ELSE "mixed"

\* Mutant of ParlayOf: the sport label is taken from the matchups that gave
\* a leg.
ParlayOf_sport_of_legs(selected, allowed_types, stake) ==
    [legs |-> BestLegs(selected, allowed_types), stake |-> stake,
     sport |-> SportOf({selected[i].matchup.sport :
                          i \in {k \in 1..Len(selected) :
                                   choose_best_bet(selected[k].matchup,
                                                   selected[k].analysis,
                                                   allowed_types) # <<>>}})]

\* generate_parlay, lines 208-226: the Parlay built from the selected
\* (matchup, analysis) pairs.
ParlayOf(selected, allowed_types, stake) ==
    [legs |-> BestLegs(selected, allowed_types), stake |-> stake,
     sport |-> SportOf({selected[i].matchup.sport : i \in 1..Len(selected)})]

\* generate_parlay, lines 199-210: analyses[:num_legs], the sorted eligible
\* (matchup, analysis) pairs that the leg loop and the sport label read.
SelectedAnalyses(matchups, num_legs, min_confidence) ==
    SliceTo(SortByConfidence(EligibleAnalyses(matchups, min_confidence)),
            num_legs)

\* Mutant of generate_parlay: the min_confidence filter is dropped.
generate_parlay_no_filter(matchups, num_legs, bet_types, min_confidence, stake) ==
    ParlayOf(SelectedAnalyses(matchups, num_legs, RInt(0)),
             AllowedTypes(bet_types), stake)

generate_parlay(matchups, num_legs, bet_types, min_confidence, stake) ==
    ParlayOf(SelectedAnalyses(matchups, num_legs, min_confidence),
             AllowedTypes(bet_types), stake)

\* Mutant of generate_safe_parlay: the aggressive preset is passed on.
generate_safe_parlay_as_aggressive(matchups, stake) ==
    generate_parlay(matchups, 5,
                    [is_none |-> FALSE,
                     types |-> {"spread", "moneyline", "over", "under"}],
                    Rat(45, 100), stake)

generate_safe_parlay(matchups, stake) ==
    generate_parlay(matchups, 2,
                    [is_none |-> FALSE, types |-> {"spread", "moneyline"}],
                    Rat(60, 100), stake)

\* Mutant of generate_aggressive_parlay: the safe preset is passed on.
generate_aggressive_parlay_as_safe(matchups, stake) ==
    generate_parlay(matchups, 2,
                    [is_none |-> FALSE, types |-> {"spread", "moneyline"}],
                    Rat(60, 100), stake)

generate_aggressive_parlay(matchups, stake) ==
    generate_parlay(matchups, 5,
                    [is_none |-> FALSE,
                     types |-> {"spread", "moneyline", "over", "under"}],
                    Rat(45, 100), stake)

(***************************************************************************)
(* The TTL cache of the data services (services/odds_service.py and        *)
(* services/sports_data.py hold the same code).  A cache maps each key to  *)
(* an entry; a key that is not in the dict has the entry NoEntry.  Time is *)
(* the reading of datetime.utcnow().timestamp(), in seconds.               *)
(***************************************************************************)
cache_ttl == 300

\* What a service hands out: a list of so many items or an object, about
\* something, produced at some time.  NoData is None.
Data(kind, of, items, produced_at) ==
    [kind |-> kind, of |-> of, items |-> items, produced_at |-> produced_at]

NoData == Data("None", "", 0, 0)

\* "if cached:" is true of an object and of a list that is not empty.
Truthy(data) ==
    data.kind = "object" \/ (data.kind = "list" /\ data.items > 0)

CacheEntry(data, timestamp) ==
    [present |-> TRUE, data |-> data, timestamp |-> timestamp]

NoEntry == [present |-> FALSE, data |-> NoData, timestamp |-> 0]

\* What _get_cached leaves and returns.
Looked(cache_after, returned) == [cache |-> cache_after, returned |-> returned]

\* Mutant of get_cached: an entry is still valid when exactly the TTL has
\* passed.
get_cached_inclusive(entries, key, now) ==
    IF entries[key].present
    THEN IF now - entries[key].timestamp <= cache_ttl
         THEN Looked(entries, entries[key].data)
         ELSE Looked([entries EXCEPT ![key] = NoEntry], NoData)
    ELSE Looked(entries, NoData)

get_cached(entries, key, now) ==
    IF entries[key].present
    THEN IF now - entries[key].timestamp < cache_ttl
         THEN Looked(entries, entries[key].data)
         ELSE Looked([entries EXCEPT ![key] = NoEntry], NoData)
    ELSE Looked(entries, NoData)

set_cached(entries, key, data, now) ==
    [entries EXCEPT ![key] = CacheEntry(data, now)]

\* get_odds: f"odds_{sport}_{matchup_id or 'all'}" without a matchup id.
odds_key(sport) == IF sport = "NFL" THEN "odds_NFL_all" ELSE "odds_NBA_all"

\* get_head_to_head: f"h2h_{sport}_{team1_id}_{team2_id}" for the one pair of
\* teams asked about.
h2h_key == "h2h_nfl_nfl_kc_nfl_sf"

\* _get_mock_odds: the same two games of the sport on every call.
get_mock_odds(sport) == Data("list", sport, 2, 0)

\* get_head_to_head builds a record whose last_meeting is 30 days before
\* the time of the call: records built at different times differ.
mock_head_to_head(now) == Data("object", "h2h", 1, now)

\* A get call of a service: the lookup at time now, and on a miss the fresh
\* value, stored at time stored_at.
get_through_cache(entries, key, fresh, now, stored_at) ==
    LET cached == get_cached(entries, key, now)
    IN  IF Truthy(cached.returned)
        THEN cached
        ELSE Looked(set_cached(cached.cache, key, fresh, stored_at), fresh)

get_odds(entries, sport, now, stored_at) ==
    get_through_cache(entries, odds_key(sport), get_mock_odds(sport), now,
                      stored_at)

get_head_to_head(entries, now, stored_at) ==
    get_through_cache(entries, h2h_key, mock_head_to_head(stored_at), now,
                      stored_at)

(***************************************************************************)
(* State.                                                                  *)
(*   call, ret      odds arithmetic: the last call made (function and      *)
(*                  arguments) and what it returned                        *)
(*   analysis       a FactorAnalysis object                                *)
(*   last_op        the last operation on it, with its top_n argument      *)
(*   key_factors    the list the last get_key_factors call returned        *)
(*   analyzed       the matchup analyze built the object from, as a list   *)
(*                  of one; empty for an object built directly             *)
(*   request        the last call made on the predictor                    *)
(*   parlay         the Parlay that generate_parlay returned               *)
(*   selected_matchups  generate_parlay's analyses[:num_legs], as matchups *)
(*   returned_leg   the ParlayLeg that a predict_* call returned           *)
(*   current_parlay the selection-based Parlay of the application          *)
(*   parlay_op      the last method called on it, its argument and result  *)
(*   workers        concurrent analyze calls on one analyzer: each call's  *)
(*                  position, matchup and returned analysis                *)
(*   objects        the FactorAnalysis objects those calls work on         *)
(*   weights        the weights of the shared analyzer                     *)
(*   clock          the time, in seconds                                   *)
(*   ticks          how many times the clock has moved                     *)
(*   cache          the entries of the services' caches, by key            *)
(*   lookup         the last cache lookup or get call: its key, its time,  *)
(*                  whether the key was in the cache, whether the stored   *)
(*                  value was handed out, and what was returned            *)
(*   served         by key, what the last get call returned and when that  *)
(*                  value had been stored                                  *)
(***************************************************************************)
VARIABLES call, ret, analysis, last_op, key_factors, analyzed, request, parlay, selected_matchups, returned_leg, current_parlay, parlay_op, workers, objects, weights, clock, ticks, cache, lookup, served

oddsVars == <<call, ret>>

factorVars == <<analysis, last_op, key_factors, analyzed>>

predictorVars == <<request, parlay, selected_matchups, returned_leg>>

parlayVars == <<current_parlay, parlay_op>>

workerVars == <<workers, objects, weights>>

cacheVars == <<clock, ticks, cache, lookup, served>>

vars == <<call, ret, analysis, last_op, key_factors, analyzed, request, parlay, selected_matchups, returned_leg, current_parlay, parlay_op, workers, objects, weights, clock, ticks, cache, lookup, served>>

\* Leg odds of the selections and legs handed to the calculators; 0 is the
\* malformed value the code does not guard against.
LegOdds == {-500, -150, -110, 0, 100, 150}

StakeValues == {RInt(-5), RInt(0), Rat(5, 2), RInt(100)}

DecimalValues == {RInt(1), Rat(3, 2), Rat(167, 100), RInt(2), Rat(5, 2), RInt(3)}

ScoreValues == {Rat(1, 2), Rat(7, 10)}

RECURSIVE SeqsUpTo(_, _)
SeqsUpTo(S, n) ==
    IF n = 0 THEN {<<>>}
    ELSE LET shorter == SeqsUpTo(S, n - 1)
         IN  shorter \cup {Append(q, x) : q \in shorter, x \in S}

\* BetSelection lists: game_id and odds (the text fields play no part in
\* the arithmetic).
BetSelections(oddsSeq) ==
    [i \in 1..Len(oddsSeq) |-> [game_id |-> i, odds |-> oddsSeq[i]]]

SelectionLists == {BetSelections(q) : q \in SeqsUpTo(LegOdds, MaxSelections)}

LegLists ==
    SeqsUpTo([odds : LegOdds, confidence_score : ScoreValues], MaxSelections)

Call(fn, american, decimal, selections, legs, stake, err) ==
    [fn |-> fn, american |-> american, decimal |-> decimal,
     selections |-> selections, legs |-> legs, stake |-> stake, err |-> err]

Ret(raised, american, decimal, prob, payout, profit) ==
    [raised |-> raised, american |-> american, decimal |-> decimal,
     prob |-> prob, payout |-> payout, profit |-> profit]

OddsInit ==
    /\ call = Call("none", 0, RInt(0), <<>>, <<>>, RInt(0), <<0, 0>>)
    /\ ret = Ret("", 0, RInt(0), RInt(0), RInt(0), RInt(0))

\* Each behaviour is one call of a pure function and its result.
NoCall == call.fn = "none"

\* decimal_to_american(american_to_decimal(o)) for o # 0.
RoundTrip ==
    /\ NoCall
    /\ UNCHANGED <<factorVars, predictorVars, parlayVars, workerVars, cacheVars>>
    /\ \E o \in (-MaxOdds..MaxOdds) \ {0}, e \in FloatErr :
        LET d == american_to_decimal(o)
            r == decimal_to_american(d, FloatSide(d, e))
        IN  /\ call' = Call("round_trip", o, d, <<>>, <<>>, RInt(0), <<e, 0>>)
            /\ ret' = Ret(r.raised, r.value, d, RInt(0), RInt(0), RInt(0))

\* decimal_to_american on a float given by the caller.
DecimalToAmerican ==
    /\ NoCall
    /\ UNCHANGED <<factorVars, predictorVars, parlayVars, workerVars, cacheVars>>
    /\ \E d \in DecimalValues, e \in FloatErr :
        LET r == decimal_to_american(d, FloatSide(d, e))
        IN  /\ call' = Call("decimal_to_american", 0, d, <<>>, <<>>, RInt(0), <<e, 0>>)
            /\ ret' = Ret(r.raised, r.value, RInt(0), RInt(0), RInt(0), RInt(0))

ImpliedProbability ==
    /\ NoCall
    /\ UNCHANGED <<factorVars, predictorVars, parlayVars, workerVars, cacheVars>>
    /\ \E o \in (-MaxOdds..MaxOdds) \ {0} :
        /\ call' = Call("calculate_implied_probability", o, RInt(0), <<>>, <<>>,
                        RInt(0), <<0, 0>>)
        /\ ret' = Ret("", 0, RInt(0), calculate_implied_probability(o),
                      RInt(0), RInt(0))

LegImpliedProbability ==
    /\ NoCall
    /\ UNCHANGED <<factorVars, predictorVars, parlayVars, workerVars, cacheVars>>
    /\ \E o \in (-MaxOdds..MaxOdds) \ {0} :
        /\ call' = Call("ParlayLeg.implied_probability", o, RInt(0), <<>>, <<>>,
                        RInt(0), <<0, 0>>)
        /\ ret' = Ret("", 0, RInt(0), ParlayLeg_implied_probability(o),
                      RInt(0), RInt(0))

OddsImpliedProbability ==
    /\ NoCall
    /\ UNCHANGED <<factorVars, predictorVars, parlayVars, workerVars, cacheVars>>
    /\ \E o \in (-MaxOdds..MaxOdds) \ {0} :
        /\ call' = Call("Odds.get_implied_probability", o, RInt(0), <<>>, <<>>,
                        RInt(0), <<0, 0>>)
        /\ ret' = Ret("", 0, RInt(0), Odds_get_implied_probability(o),
                      RInt(0), RInt(0))

CalculateParlayOdds ==
    /\ NoCall
    /\ UNCHANGED <<factorVars, predictorVars, parlayVars, workerVars, cacheVars>>
    /\ \E sels \in SelectionLists, e \in FloatErr, e2 \in FloatErr :
        LET r == calculate_parlay_odds(sels, e, e2)
        IN  /\ call' = Call("calculate_parlay_odds", 0, RInt(0), sels, <<>>,
                            RInt(0), <<e, e2>>)
            /\ ret' = Ret(r.raised, r.american_odds, r.decimal_odds,
                          r.implied_probability, RInt(0), RInt(0))

CalculatePayout ==
    /\ NoCall
    /\ UNCHANGED <<factorVars, predictorVars, parlayVars, workerVars, cacheVars>>
    /\ \E st \in StakeValues, sels \in SelectionLists, e \in FloatErr,
          e2 \in FloatErr :
        LET r == calculate_payout(st, sels, e, e2)
        IN  /\ call' = Call("calculate_payout", 0, RInt(0), sels, <<>>, st,
                            <<e, e2>>)
            /\ ret' = Ret(r.raised, 0, RInt(0), RInt(0), r.total_payout, r.profit)

\* The derived aggregates of a models.Parlay: total_odds, get_american_odds,
\* implied_win_probability, potential_payout, potential_profit.  A leg with
\* odds 0 makes ParlayLeg.decimal_odds divide by zero.
ParlayAggregates ==
    /\ NoCall
    /\ UNCHANGED <<factorVars, predictorVars, parlayVars, workerVars, cacheVars>>
    /\ \E legs \in LegLists, st \in StakeValues, e \in FloatErr :
        /\ call' = Call("Parlay.aggregates", 0, RInt(0), <<>>, legs, st, <<e, 0>>)
        /\ ret' = IF \E i \in 1..Len(legs) : legs[i].odds = 0
                  THEN Ret("ZeroDivisionError", 0, RInt(0),
                           Parlay_implied_win_probability(legs), RInt(0), RInt(0))
                  ELSE Ret("", Parlay_get_american_odds(legs, e),
                           Parlay_total_odds(legs),
                           Parlay_implied_win_probability(legs),
                           Parlay_potential_payout(legs, st),
                           Parlay_potential_profit(legs, st))

OddsNext ==
    \/ RoundTrip
    \/ DecimalToAmerican
    \/ ImpliedProbability
    \/ LegImpliedProbability
    \/ OddsImpliedProbability
    \/ CalculateParlayOdds
    \/ CalculatePayout
    \/ ParlayAggregates

(***************************************************************************)
(* A FactorAnalysis object under add_factor, calculate_prediction and      *)
(* get_key_factors, and the analyses FactorAnalyzer.analyze returns.       *)
(***************************************************************************)
\* Factors handed to add_factor.  Three of them have |weighted_value| = 1/10
\* and differ in value or weight.
FactorInputs ==
    {Factor("custom", Rat(-1, 2), Rat(1, 5)), Factor("custom", RInt(1), Rat(1, 10)),
     Factor("custom", Rat(1, 2), Rat(1, 5)), Factor("custom", RInt(0), Rat(1, 10)),
     Factor("custom", Rat(1, 2), Rat(1, 10))}

TopNValues == 0..MaxTopN

TeamStats(wins, losses, ties, streak, points_for, points_against) ==
    [wins |-> wins, losses |-> losses, ties |-> ties, streak |-> streak,
     points_for |-> points_for, points_against |-> points_against]

Team(id, stats) == [id |-> id, stats |-> stats]

NoWeather ==
    [present |-> FALSE, is_dome |-> FALSE, wind_speed |-> 0, temperature |-> 0,
     precipitation_chance |-> 0]

Weather(is_dome, wind_speed, temperature, precipitation_chance) ==
    [present |-> TRUE, is_dome |-> is_dome, wind_speed |-> wind_speed,
     temperature |-> temperature,
     precipitation_chance |-> precipitation_chance]

Injury(status, impact_score) == [status |-> status, impact_score |-> impact_score]

NoInjuryReport == [present |-> FALSE, injuries |-> <<>>]

InjuryReport(injuries) == [present |-> TRUE, injuries |-> injuries]

Odds(spread, spread_odds, moneyline_home, moneyline_away, over_odds, under_odds) ==
    [spread |-> spread, spread_odds |-> spread_odds,
     moneyline_home |-> moneyline_home, moneyline_away |-> moneyline_away,
     over_odds |-> over_odds, under_odds |-> under_odds]

HeadToHead(home_wins, away_wins, ties) ==
    [home_wins |-> home_wins, away_wins |-> away_wins, ties |-> ties]

Matchup(id, sport, home_team, away_team, is_neutral_site, weather, odds, home_injuries, away_injuries, head_to_head) ==
    [id |-> id, sport |-> sport, home_team |-> home_team,
     away_team |-> away_team, is_neutral_site |-> is_neutral_site,
     weather |-> weather, odds |-> odds, home_injuries |-> home_injuries,
     away_injuries |-> away_injuries, head_to_head |-> head_to_head]

\* The matchup of the test suite: every factor favours the home team or is 0.
GameKC ==
    Matchup("g1", "NFL",
            Team("nfl_kc", TeamStats(12, 5, 0, 3, 400, 300)),
            Team("nfl_sf", TeamStats(11, 6, 0, -1, 380, 320)),
            FALSE, NoWeather, Odds(Rat(-7, 2), -110, -175, 155, -110, -110),
            NoInjuryReport, NoInjuryReport, HeadToHead(3, 2, 0))

\* A road favourite: injured, poorly rated home team, high-scoring teams.
GameNBA ==
    Matchup("g2", "NBA",
            Team("nba_a", TeamStats(10, 10, 0, 2, 430, 400)),
            Team("nba_b", TeamStats(11, 9, 0, 2, 450, 395)),
            FALSE, NoWeather, Odds(Rat(17, 2), -105, 250, -300, -115, -105),
            InjuryReport(<<Injury("out", Rat(1, 25)),
                           Injury("questionable", Rat(2, 25)),
                           Injury("probable", Rat(1, 2))>>),
            NoInjuryReport, HeadToHead(0, 0, 0))

\* Nothing separates the teams: every factor is 0.
GameEven ==
    Matchup("g3", "MLB",
            Team("mlb_a", TeamStats(8, 8, 0, 0, 300, 300)),
            Team("mlb_b", TeamStats(8, 8, 0, 0, 300, 300)),
            TRUE, Weather(TRUE, 0, 70, 0),
            Odds(RInt(0), -110, -110, -110, -110, -110),
            NoInjuryReport, NoInjuryReport, HeadToHead(0, 0, 0))

\* Factors on both sides, bad weather, a sport name in lower case.
GameMixed ==
    Matchup("g4", "nfl",
            Team("nfl_c", TeamStats(11, 9, 0, 1, 430, 395)),
            Team("nfl_d", TeamStats(10, 10, 0, 2, 410, 380)),
            FALSE, Weather(FALSE, 20, 40, 10),
            Odds(Rat(-3, 1), -110, -130, 110, -110, -110),
            NoInjuryReport, InjuryReport(<<Injury("doubtful", Rat(7, 50))>>),
            HeadToHead(11, 14, 0))

\* A heavy home favourite whose analysis confidence equals that of GameKC.
GameBlowout ==
    Matchup("g5", "NFL",
            Team("nfl_e", TeamStats(14, 3, 0, 7, 500, 280)),
            Team("nfl_f", TeamStats(3, 14, 0, -6, 250, 450)),
            FALSE, NoWeather, Odds(Rat(-21, 2), -110, -600, 450, -110, -110),
            NoInjuryReport, NoInjuryReport, HeadToHead(2, 0, 0))

\* Before the season: no games played, no meetings, no reports, and the
\* defaults of Odds; the sport has no entry in sport_advantage.
GameOpening ==
    Matchup("g6", "MLS",
            Team("mls_a", TeamStats(0, 0, 0, 0, 0, 0)),
            Team("mls_b", TeamStats(0, 0, 0, 0, 0, 0)),
            FALSE, NoWeather, Odds(RInt(0), -110, -110, -110, -110, -110),
            NoInjuryReport, NoInjuryReport, HeadToHead(0, 0, 0))

Matchups == {GameKC, GameNBA, GameEven, GameMixed, GameBlowout, GameOpening}

\* No weather, a dome in a storm, open-air weather that affects gameplay
\* (wind, heat), and open-air weather at the limits of affects_gameplay.
WeatherValues ==
    {NoWeather, Weather(TRUE, 20, 40, 10), Weather(FALSE, 20, 40, 10),
     Weather(FALSE, 5, 91, 0), Weather(FALSE, 15, 32, 50)}

\* The matchup with other weather.
WithWeather(matchup, weather) == [matchup EXCEPT !.weather = weather]

LastOp(op, top_n) == [op |-> op, top_n |-> top_n]

FactorsInit ==
    /\ analysis = FactorAnalysis("test")
    /\ last_op = LastOp("new", 0)
    /\ key_factors = <<>>
    /\ analyzed = <<>>

AddFactor ==
    /\ Len(analysis.factors) < MaxFactors
    /\ \E factor \in FactorInputs :
        analysis' = add_factor(analysis, factor)
    /\ last_op' = LastOp("add_factor", 0)
    /\ key_factors' = <<>>
    /\ UNCHANGED <<analyzed, oddsVars, predictorVars, parlayVars, workerVars, cacheVars>>

CalculatePrediction ==
    /\ analysis' = calculate_prediction(analysis)
    /\ last_op' = LastOp("calculate_prediction", 0)
    /\ key_factors' = <<>>
    /\ UNCHANGED <<analyzed, oddsVars, predictorVars, parlayVars, workerVars, cacheVars>>

\* analyze returns a fresh analysis of its matchup.
Analyze ==
    /\ \E matchup \in Matchups :
        \E weather \in WeatherValues \cup {matchup.weather} :
            /\ analysis' = analyze(WithWeather(matchup, weather))
            /\ analyzed' = <<WithWeather(matchup, weather)>>
    /\ last_op' = LastOp("analyze", 0)
    /\ key_factors' = <<>>
    /\ UNCHANGED <<oddsVars, predictorVars, parlayVars, workerVars, cacheVars>>

GetKeyFactors ==
    /\ \E top_n \in TopNValues :
        /\ key_factors' = get_key_factors(analysis, top_n)
        /\ last_op' = LastOp("get_key_factors", top_n)
    /\ UNCHANGED <<analysis, analyzed, oddsVars, predictorVars, parlayVars, workerVars, cacheVars>>

FactorsNext ==
    \/ AddFactor
    \/ CalculatePrediction
    \/ Analyze
    \/ GetKeyFactors

(***************************************************************************)
(* The predictor: one parlay generation per behaviour.                     *)
(***************************************************************************)
MatchupLists == SeqsUpTo(Matchups, MaxMatchups)

\* Lists for the presets, long enough for more matchups than the safe
\* preset takes.
PresetMatchupLists == SeqsUpTo(Matchups, MaxMatchups + 1)

\* --legs is any integer (cli/main.py passes it on unchecked).
NumLegsValues == (-1)..MaxLegs

MinConfidenceValues == {Rat(45, 100), Rat(6, 10), Rat(9, 10)}

BetTypes(is_none, types) == [is_none |-> is_none, types |-> types]

BetTypeChoices ==
    {BetTypes(TRUE, {}), BetTypes(FALSE, {}), BetTypes(FALSE, {"over"}),
     BetTypes(FALSE, {"spread", "moneyline", "over", "under"})}

Request(fn, matchups, num_legs, bet_types, min_confidence, stake) ==
    [fn |-> fn, matchups |-> matchups, num_legs |-> num_legs,
     bet_types |-> bet_types, min_confidence |-> min_confidence,
     stake |-> stake]

NoLeg == ParlayLeg("", "none", 0, "None", "low", RInt(0))

PredictorInit ==
    /\ request = Request("none", <<>>, 0, BetTypes(TRUE, {}), RInt(0), RInt(0))
    /\ parlay = [legs |-> <<>>, stake |-> RInt(0), sport |-> "mixed"]
    /\ selected_matchups = <<>>
    /\ returned_leg = NoLeg

NoRequest == request.fn = "none"

\* The matchups of analyses[:num_legs], in that order.
SelectedMatchups(matchups, num_legs, min_confidence) ==
    LET picked == SelectedAnalyses(matchups, num_legs, min_confidence)
    IN  [i \in 1..Len(picked) |-> picked[i].matchup]

GenerateParlay ==
    /\ NoRequest
    /\ UNCHANGED <<returned_leg, oddsVars, factorVars, parlayVars, workerVars, cacheVars>>
    /\ \E matchups \in MatchupLists, num_legs \in NumLegsValues,
          bet_types \in BetTypeChoices,
          min_confidence \in MinConfidenceValues :
        /\ request' = Request("generate_parlay", matchups, num_legs, bet_types,
                              min_confidence, RInt(10))
        /\ parlay' = generate_parlay(matchups, num_legs, bet_types,
                                     min_confidence, RInt(10))
        /\ selected_matchups' = SelectedMatchups(matchups, num_legs, min_confidence)

GenerateSafeParlay ==
    /\ NoRequest
    /\ UNCHANGED <<returned_leg, oddsVars, factorVars, parlayVars, workerVars, cacheVars>>
    /\ \E matchups \in PresetMatchupLists :
        /\ request' = Request("generate_safe_parlay", matchups, 2,
                              BetTypes(FALSE, {"spread", "moneyline"}),
                              Rat(60, 100), RInt(10))
        /\ parlay' = generate_safe_parlay(matchups, RInt(10))
        /\ selected_matchups' = SelectedMatchups(matchups, 2, Rat(60, 100))

\* The catalogue as one slate of games.
Slate == <<GameKC, GameNBA, GameEven, GameMixed, GameBlowout, GameOpening>>

\* Lists of as many and of more matchups than the aggressive preset takes:
\* five or six games of the slate, from any game on.
LongMatchupLists ==
    {SubSeq(Slate \o Slate, k, k + n - 1) : k \in 1..6, n \in {5, 6}}

GenerateAggressiveParlay ==
    /\ NoRequest
    /\ UNCHANGED <<returned_leg, oddsVars, factorVars, parlayVars, workerVars, cacheVars>>
    /\ \E matchups \in PresetMatchupLists \cup LongMatchupLists :
        /\ request' = Request("generate_aggressive_parlay", matchups, 5,
                              BetTypes(FALSE,
                                       {"spread", "moneyline", "over", "under"}),
                              Rat(45, 100), RInt(10))
        /\ parlay' = generate_aggressive_parlay(matchups, RInt(10))
        /\ selected_matchups' = SelectedMatchups(matchups, 5, Rat(45, 100))

\* A predict_* call on a matchup and its analysis.
PredictRequest(fn, matchup) ==
    Request(fn, <<matchup>>, 0, BetTypes(TRUE, {}), RInt(0), RInt(0))

\* Point spreads on both sides of the -7 and +7 of predict_spread, and those
\* two values themselves.
SpreadValues == {RInt(-10), Rat(-15, 2), RInt(-7), RInt(-3), RInt(7), Rat(15, 2)}

\* The matchup with another point spread.
WithSpread(matchup, spread) == [matchup EXCEPT !.odds.spread = spread]

PredictSpread ==
    /\ NoRequest
    /\ UNCHANGED <<parlay, selected_matchups, oddsVars, factorVars, parlayVars, workerVars, cacheVars>>
    /\ \E matchup \in Matchups :
        \E spread \in SpreadValues \cup {matchup.odds.spread} :
            /\ request' = PredictRequest("predict_spread",
                                         WithSpread(matchup, spread))
            /\ returned_leg' = predict_spread(WithSpread(matchup, spread),
                                              analyze(WithSpread(matchup, spread)))

PredictMoneyline ==
    /\ NoRequest
    /\ UNCHANGED <<parlay, selected_matchups, oddsVars, factorVars, parlayVars, workerVars, cacheVars>>
    /\ \E matchup \in Matchups :
        /\ request' = PredictRequest("predict_moneyline", matchup)
        /\ returned_leg' = predict_moneyline(matchup, analyze(matchup))

\* Season points <<home for, away for, home against, away against>> at and
\* above the thresholds 25 * 17 and 23 * 17 of _analyze_total.
PointsValues ==
    {<<425, 425, 391, 391>>, <<426, 425, 391, 391>>, <<426, 425, 392, 391>>,
     <<426, 426, 391, 391>>, <<426, 426, 392, 391>>, <<426, 426, 392, 392>>}

PointsOf(matchup) ==
    <<matchup.home_team.stats.points_for, matchup.away_team.stats.points_for,
      matchup.home_team.stats.points_against,
      matchup.away_team.stats.points_against>>

\* The matchup with other season points.
WithPoints(matchup, points) ==
    [matchup EXCEPT !.home_team.stats.points_for = points[1],
                    !.away_team.stats.points_for = points[2],
                    !.home_team.stats.points_against = points[3],
                    !.away_team.stats.points_against = points[4]]

PredictTotal ==
    /\ NoRequest
    /\ UNCHANGED <<parlay, selected_matchups, oddsVars, factorVars, parlayVars, workerVars, cacheVars>>
    /\ \E matchup \in Matchups :
        \E points \in PointsValues \cup {PointsOf(matchup)},
           weather \in WeatherValues \cup {matchup.weather} :
            /\ request' = PredictRequest(
                   "predict_total",
                   WithWeather(WithPoints(matchup, points), weather))
            /\ returned_leg' = predict_total(
                   WithWeather(WithPoints(matchup, points), weather),
                   analyze(WithWeather(WithPoints(matchup, points), weather)))

\* Scores handed to _get_confidence_level: those of the test suite, the
\* thresholds themselves, and values around them.
ScoreInputs ==
    {Rat(75, 100), Rat(65, 100), Rat(55, 100), Rat(45, 100), Rat(70, 100),
     Rat(60, 100), Rat(50, 100), Rat(69, 100), Rat(59, 100), Rat(49, 100),
     RInt(0), Rat(-1, 10), RInt(1)}

\* _get_confidence_level(score): the tier is kept with its score, as in a
\* leg.
GetConfidenceLevel ==
    /\ NoRequest
    /\ UNCHANGED <<parlay, selected_matchups, oddsVars, factorVars, parlayVars, workerVars, cacheVars>>
    /\ \E score \in ScoreInputs :
        /\ request' = Request("get_confidence_level", <<>>, 0,
                              BetTypes(TRUE, {}), RInt(0), RInt(0))
        /\ returned_leg' = [NoLeg EXCEPT !.confidence = get_confidence_level(score),
                                !.confidence_score = score]

PredictorNext ==
    \/ GenerateParlay
    \/ GenerateSafeParlay
    \/ GenerateAggressiveParlay
    \/ PredictSpread
    \/ PredictMoneyline
    \/ PredictTotal
    \/ GetConfidenceLevel

(***************************************************************************)
(* The selection-based Parlay of the application (src/main.py creates it   *)
(* with Parlay()) under add_selection, remove_selection, clear, set_stake. *)
(***************************************************************************)
GameIds == {1, 2, 3}

SelectionInputs == [game_id : GameIds, odds : {-110, 150}]

NoSelection == [game_id |-> 0, odds |-> 0]

\* Indices handed to remove_selection: any integer.
IndexValues == (-(MaxSelections + 1))..(MaxSelections + 1)

ParlayOp(op, selection, index, stake, returned) ==
    [op |-> op, selection |-> selection, index |-> index, stake |-> stake,
     returned |-> returned]

ParlayInit ==
    /\ current_parlay = SelectionParlay(<<>>, RInt(0))
    /\ parlay_op = ParlayOp("new", NoSelection, 0, RInt(0), "None")

\* The list is kept to MaxSelections entries; an add that the parlay rejects
\* is always possible.
AddSelection ==
    /\ \E selection \in SelectionInputs :
        /\ \/ Len(current_parlay.selections) < MaxSelections
           \/ \E i \in 1..Len(current_parlay.selections) :
                  current_parlay.selections[i].game_id = selection.game_id
        /\ current_parlay' = add_selection(current_parlay, selection).parlay
        /\ parlay_op' = ParlayOp("add_selection", selection, 0, RInt(0),
                                 add_selection(current_parlay, selection).returned)
    /\ UNCHANGED <<oddsVars, factorVars, predictorVars, workerVars, cacheVars>>

RemoveSelection ==
    /\ \E index \in IndexValues :
        /\ current_parlay' = remove_selection(current_parlay, index).parlay
        /\ parlay_op' = ParlayOp("remove_selection", NoSelection, index, RInt(0),
                                 remove_selection(current_parlay, index).returned)
    /\ UNCHANGED <<oddsVars, factorVars, predictorVars, workerVars, cacheVars>>

Clear ==
    /\ current_parlay' = clear(current_parlay).parlay
    /\ parlay_op' = ParlayOp("clear", NoSelection, 0, RInt(0),
                             clear(current_parlay).returned)
    /\ UNCHANGED <<oddsVars, factorVars, predictorVars, workerVars, cacheVars>>

SetStake ==
    /\ \E stake \in StakeValues :
        /\ current_parlay' = set_stake(current_parlay, stake).parlay
        /\ parlay_op' = ParlayOp("set_stake", NoSelection, 0, stake,
                                 set_stake(current_parlay, stake).returned)
    /\ UNCHANGED <<oddsVars, factorVars, predictorVars, workerVars, cacheVars>>

ParlayNext ==
    \/ AddSelection
    \/ RemoveSelection
    \/ Clear
    \/ SetStake

(***************************************************************************)
(* Concurrent calls on one shared predictor.  Each call runs analyze       *)
(* statement by statement and then picks its leg; the calls interleave at  *)
(* every statement.                                                        *)
(***************************************************************************)
Threads == {"t1", "t2"}

\* Mutant of AnalysisObject: the analysis is one object of the analyzer
\* that every call works on.
AnalysisObject_shared(t) == "t1"

\* analyze, line 111: analysis is a local variable bound to a FactorAnalysis
\* created by the call, so each call has an object of its own.
AnalysisObject(t) == t

Worker(pc, matchup, result, legs) ==
    [pc |-> pc, matchup |-> matchup, result |-> result, legs |-> legs]

WorkersInit ==
    /\ workers = [t \in Threads |->
                     Worker("idle", GameKC, FactorAnalysis(""), <<>>)]
    /\ objects = [t \in Threads |-> FactorAnalysis("")]
    /\ weights = DEFAULT_WEIGHTS

\* The statements of analyze that add a factor, lines 114-122, in order.
FactorSteps ==
    <<"team_record", "head_to_head", "injuries", "home_advantage", "weather",
      "recent_form">>

StepAfter(pc) ==
    IF \E i \in 1..(Len(FactorSteps) - 1) : FactorSteps[i] = pc
    THEN FactorSteps[(CHOOSE i \in 1..Len(FactorSteps) : FactorSteps[i] = pc) + 1]
    ELSE "calculate_prediction"

\* The factor of a statement; its weight is read from self.weights.
FactorOf(pc, matchup, w) ==
    CASE pc = "team_record" ->
           [analyze_team_records(matchup) EXCEPT !.weight = w.team_record]
      [] pc = "head_to_head" ->
           [analyze_head_to_head(matchup) EXCEPT !.weight = w.head_to_head]
      [] pc = "injuries" ->
           [analyze_injuries(matchup) EXCEPT !.weight = w.injuries]
      [] pc = "home_advantage" ->
           [analyze_home_advantage(matchup) EXCEPT !.weight = w.home_advantage]
      [] pc = "weather" ->
           [analyze_weather(matchup) EXCEPT !.weight = w.weather]
      [] pc = "recent_form" ->
           [analyze_recent_form(matchup) EXCEPT !.weight = w.recent_form]

\* analyze, line 111.
StartAnalyze(t) ==
    /\ workers[t].pc = "idle"
    /\ \E matchup \in Matchups :
        /\ workers' = [workers EXCEPT ![t].pc = "team_record",
                                      ![t].matchup = matchup]
        /\ objects' = [objects EXCEPT
                         ![AnalysisObject(t)] = FactorAnalysis(matchup.id)]
    /\ UNCHANGED <<weights, oddsVars, factorVars, predictorVars, parlayVars, cacheVars>>

\* analyze, lines 114-122: one add_factor statement; the weather statement
\* does nothing for a matchup without weather.
WorkerAddFactor(t) ==
    /\ \E i \in 1..Len(FactorSteps) : FactorSteps[i] = workers[t].pc
    /\ objects' =
           IF workers[t].pc = "weather" /\ ~workers[t].matchup.weather.present
           THEN objects
           ELSE [objects EXCEPT ![AnalysisObject(t)] =
                    add_factor(@, FactorOf(workers[t].pc, workers[t].matchup,
                                           weights))]
    /\ workers' = [workers EXCEPT ![t].pc = StepAfter(@)]
    /\ UNCHANGED <<weights, oddsVars, factorVars, predictorVars, parlayVars, cacheVars>>

\* analyze, line 125.
WorkerCalculatePrediction(t) ==
    /\ workers[t].pc = "calculate_prediction"
    /\ objects' = [objects EXCEPT ![AnalysisObject(t)] = calculate_prediction(@)]
    /\ workers' = [workers EXCEPT ![t].pc = "predicted_winner"]
    /\ UNCHANGED <<weights, oddsVars, factorVars, predictorVars, parlayVars, cacheVars>>

\* analyze, lines 127-133: the winner is set and the analysis is returned.
WorkerReturnAnalysis(t) ==
    /\ workers[t].pc = "predicted_winner"
    /\ objects' = [objects EXCEPT ![AnalysisObject(t)] =
                      SetPredictedWinner(@, workers[t].matchup)]
    /\ workers' = [workers EXCEPT
                      ![t].pc = "choose_best_bet",
                      ![t].result = SetPredictedWinner(objects[AnalysisObject(t)],
                                                       workers[t].matchup)]
    /\ UNCHANGED <<weights, oddsVars, factorVars, predictorVars, parlayVars, cacheVars>>

\* generate_parlay, lines 209-214, for the call's matchup: the leg is made
\* from the matchup and the analysis returned.
WorkerChooseBestBet(t) ==
    /\ workers[t].pc = "choose_best_bet"
    /\ workers' = [workers EXCEPT
                      ![t].pc = "done",
                      ![t].legs = choose_best_bet(workers[t].matchup,
                                                  workers[t].result,
                                                  {"spread", "moneyline", "over",
                                                   "under"})]
    /\ UNCHANGED <<objects, weights, oddsVars, factorVars, predictorVars, parlayVars, cacheVars>>

WorkersNext ==
    \E t \in Threads :
        \/ StartAnalyze(t)
        \/ WorkerAddFactor(t)
        \/ WorkerCalculatePrediction(t)
        \/ WorkerReturnAnalysis(t)
        \/ WorkerChooseBestBet(t)

(***************************************************************************)
(* Specifications: the odds arithmetic (Spec), the factor analysis         *)
(* (SpecFactors), the predictor (SpecPredictor), the selection-based       *)
(* Parlay (SpecParlay) and concurrent calls on the predictor (SpecWorkers).*)
(***************************************************************************)
(***************************************************************************)
(* The TTL cache under lookups and get calls while time passes.  The keys  *)
(* of the two services differ, so one function holds both caches.          *)
(***************************************************************************)
Sports == {"NFL", "NBA"}

CacheKeys == {odds_key(sport) : sport \in Sports} \cup {h2h_key}

\* Time passes by a second, by a second less than the TTL, or by the TTL.
TickValues == {1, cache_ttl - 1, cache_ttl}

\* Between the lookup and the store of one get call no time passes, or a
\* second.
ElapsedValues == {0, 1}

Lookup(op, key, at, found, hit, returned) ==
    [op |-> op, key |-> key, at |-> at, found |-> found, hit |-> hit,
     returned |-> returned]

Served(called, data, stored_at) ==
    [called |-> called, data |-> data, stored_at |-> stored_at]

CacheInit ==
    /\ clock = 0
    /\ ticks = 0
    /\ cache = [key \in CacheKeys |-> NoEntry]
    /\ lookup = Lookup("none", "", 0, FALSE, FALSE, NoData)
    /\ served = [key \in CacheKeys |-> Served(FALSE, NoData, 0)]

Tick ==
    /\ ticks < MaxTicks
    /\ \E d \in TickValues : clock' = clock + d
    /\ ticks' = ticks + 1
    /\ UNCHANGED <<cache, lookup, served>>
    /\ UNCHANGED <<oddsVars, factorVars, predictorVars, parlayVars, workerVars>>

\* _get_cached(key), called on its own.
GetCached ==
    /\ \E key \in CacheKeys :
        /\ cache' = get_cached(cache, key, clock).cache
        /\ lookup' = Lookup("_get_cached", key, clock, cache[key].present,
                            get_cached(cache, key, clock).returned # NoData,
                            get_cached(cache, key, clock).returned)
    /\ UNCHANGED <<clock, ticks, served>>
    /\ UNCHANGED <<oddsVars, factorVars, predictorVars, parlayVars, workerVars>>

\* A get call of a service returned `looked` for the key.
Got(key, looked, elapsed) ==
    /\ cache' = looked.cache
    /\ lookup' = Lookup("get", key, clock, cache[key].present,
                        Truthy(get_cached(cache, key, clock).returned),
                        looked.returned)
    /\ served' = [served EXCEPT
                    ![key] = Served(TRUE, looked.returned,
                                    looked.cache[key].timestamp)]
    /\ clock' = clock + elapsed
    /\ ticks' = ticks + elapsed

GetOdds ==
    /\ \E sport \in Sports, elapsed \in ElapsedValues :
        /\ ticks + elapsed <= MaxTicks
        /\ Got(odds_key(sport), get_odds(cache, sport, clock, clock + elapsed),
               elapsed)
    /\ UNCHANGED <<oddsVars, factorVars, predictorVars, parlayVars, workerVars>>

GetHeadToHead ==
    /\ \E elapsed \in ElapsedValues :
        /\ ticks + elapsed <= MaxTicks
        /\ Got(h2h_key, get_head_to_head(cache, clock, clock + elapsed),
               elapsed)
    /\ UNCHANGED <<oddsVars, factorVars, predictorVars, parlayVars, workerVars>>

CacheNext ==
    \/ Tick
    \/ GetCached
    \/ GetOdds
    \/ GetHeadToHead

Init ==
    OddsInit /\ FactorsInit /\ PredictorInit /\ ParlayInit /\ WorkersInit /\ CacheInit

Next == OddsNext

Spec == Init /\ [][Next]_vars

SpecFactors == Init /\ [][FactorsNext]_vars

SpecPredictor == Init /\ [][PredictorNext]_vars

SpecParlay == Init /\ [][ParlayNext]_vars

SpecWorkers == Init /\ [][WorkersNext]_vars

SpecCache == Init /\ [][CacheNext]_vars

(***************************************************************************)
(* Claims about the odds arithmetic, checked under Spec.                   *)
(***************************************************************************)
RoundTripCall == call.fn = "round_trip"

RoundTripWithinOne == ret.raised = "" /\ Abs(ret.american - call.american) <= 1

\* C1 as stated: for every American odds o # 0, including magnitudes below
\* 100, decimal_to_american(american_to_decimal(o)) is within 1 of o.
C1_RoundTripAnyOdds == RoundTripCall => RoundTripWithinOne

\* C1 amended: for every American odds o >= 100 or o <= -101,
\* decimal_to_american(american_to_decimal(o)) is within 1 of o.
C1_RoundTripValidOdds ==
    (RoundTripCall /\ (call.american >= 100 \/ call.american <= -101))
        => RoundTripWithinOne

C1_Witness ==
    RoundTripCall /\ call.american = -110 /\ ret.raised = "" /\ ret.american = -109

NonEmptyNonZero ==
    /\ call.selections # <<>>
    /\ \A i \in 1..Len(call.selections) : call.selections[i].odds # 0

\* C5: calculate_parlay_odds([]) returns 0 / 0 / 0 without raising, and
\* calculate_payout returns 0 / 0 whenever the list is empty or stake <= 0,
\* whatever the other argument is.
C5_EmptyOrNoStakeIsZero ==
    /\ (call.fn = "calculate_parlay_odds" /\ call.selections = <<>>)
          => /\ ret.raised = ""
             /\ ret.decimal = RInt(0)
             /\ ret.american = 0
             /\ ret.prob = RInt(0)
    /\ (call.fn = "calculate_payout"
          /\ (call.selections = <<>> \/ RLe(call.stake, RInt(0))))
          => /\ ret.raised = ""
             /\ ret.payout = RInt(0)
             /\ ret.profit = RInt(0)

C5_Witness ==
    /\ call.fn = "calculate_payout"
    /\ RLt(call.stake, RInt(0))
    /\ \E i \in 1..Len(call.selections) : call.selections[i].odds = 0
    /\ ret.raised = ""
    /\ ret.payout = RInt(0)

\* C6 as stated: a models.Parlay with no legs has decimal odds, American
\* odds, payout, profit and implied win probability all zero, for any stake.
C6_EmptyParlayAllZero ==
    (call.fn = "Parlay.aggregates" /\ call.legs = <<>>)
        => /\ ret.raised = ""
           /\ ret.decimal = RInt(0)
           /\ ret.american = 0
           /\ ret.payout = RInt(0)
           /\ ret.profit = RInt(0)
           /\ ret.prob = RInt(0)

\* C7 as stated: decimal_to_american(1.0) returns 0 and raises nothing (and
\* Parlay.get_american_odds returns 0 when total_odds is 1.0).
C7_DecimalOneIsZero ==
    /\ (call.fn = "decimal_to_american" /\ call.decimal = RInt(1))
          => (ret.raised = "" /\ ret.american = 0)
    /\ (call.fn = "Parlay.aggregates" /\ ret.raised = "" /\ ret.decimal = RInt(1))
          => ret.american = 0

\* The product of the legs' decimal odds and of their implied probabilities,
\* as the claims state them.
RECURSIVE ProductOfDecimalOdds(_)
ProductOfDecimalOdds(sels) ==
    IF sels = <<>> THEN RInt(1)
    ELSE RMul(american_to_decimal(Head(sels).odds), ProductOfDecimalOdds(Tail(sels)))

RECURSIVE ProductOfImpliedProbabilities(_)
ProductOfImpliedProbabilities(sels) ==
    IF sels = <<>> THEN RInt(1)
    ELSE RMul(calculate_implied_probability(Head(sels).odds),
              ProductOfImpliedProbabilities(Tail(sels)))

\* x and y differ by at most half a hundredth.
WithinHalfCent(x, y) == RLe(RMul(RInt(200), RAbs(RSub(x, y))), RInt(1))

\* C8 as stated: for stake > 0 and a non-empty list with nonzero odds,
\* total_payout is stake times the product of the legs' decimal odds, to the
\* cent, and profit is total_payout minus stake.
C8_PayoutIsStakeTimesProduct ==
    (call.fn = "calculate_payout" /\ RLt(RInt(0), call.stake) /\ NonEmptyNonZero)
        => /\ ret.raised = ""
           /\ WithinHalfCent(ret.payout,
                  RMul(call.stake, ProductOfDecimalOdds(call.selections)))
           /\ ret.profit = RSub(ret.payout, call.stake)

\* American odds am are the truncation of the conversion of decimal odds p:
\* (p - 1) * 100 above 2.0, -100 / (p - 1) below, either sign of 100 at 2.0.
AmericanDerivedFrom(am, p) ==
    IF RLt(RInt(2), p)
    THEN LET x == RMul(RSub(p, RInt(1)), RInt(100))
         IN  RLe(RInt(am), x) /\ RLe(RSub(x, RInt(1)), RInt(am))
    ELSE IF RLt(p, RInt(2))
    THEN LET y == RDiv(RInt(100), RSub(p, RInt(1)))
         IN  am < 0 /\ RLe(RInt(-am), y) /\ RLe(RSub(y, RInt(1)), RInt(-am))
    ELSE am \in {100, -100}

ParlayOddsCall == call.fn = "calculate_parlay_odds" /\ NonEmptyNonZero

\* C9 as stated: decimal_odds is the product of the legs' decimal odds and
\* implied_probability is 100 times the product of the legs' implied
\* probabilities (both read to the hundredth, as in "about 3.645"),
\* american_odds derive from the product and are positive whenever the
\* product is >= 2.0.
C9_ParlayOddsPositiveFromTwo ==
    ParlayOddsCall =>
        LET p == ProductOfDecimalOdds(call.selections)
            q == RMul(RInt(100), ProductOfImpliedProbabilities(call.selections))
        IN  /\ ret.raised = ""
            /\ WithinHalfCent(ret.decimal, p)
            /\ WithinHalfCent(ret.prob, q)
            /\ AmericanDerivedFrom(ret.american, p)
            /\ RLe(RInt(2), p) => ret.american > 0

\* C10: for every nonzero integer American odds the implied probability is
\* strictly between 0 and 1, and it is 0.5 at +100 and at -100, in
\* calculate_implied_probability, ParlayLeg.implied_probability and
\* Odds.get_implied_probability alike.
C10_ImpliedProbabilityRange ==
    (call.fn \in {"calculate_implied_probability",
                  "ParlayLeg.implied_probability",
                  "Odds.get_implied_probability"} /\ call.american # 0)
        => /\ RLt(RInt(0), ret.prob)
           /\ RLt(ret.prob, RInt(1))
           /\ (call.american \in {100, -100} => ret.prob = Rat(1, 2))

C10_Witness ==
    /\ call.fn = "Odds.get_implied_probability"
    /\ call.american = -100
    /\ ret.prob = Rat(1, 2)

(***************************************************************************)
(* Claims about the factor analysis, checked under SpecFactors.            *)
(***************************************************************************)
PredictionMade == last_op.op \in {"calculate_prediction", "analyze"}

TotalScore == RAdd(analysis.home_score, analysis.away_score)

\* C2: after calculate_prediction (and therefore after analyze) confidence
\* lies in [0.5, 0.95] whenever home_score + away_score > 0, and is exactly
\* 0.5 when home_score + away_score = 0.
C2_ConfidenceRange ==
    PredictionMade =>
        /\ RLt(RInt(0), TotalScore) =>
               /\ RLe(Rat(1, 2), analysis.confidence)
               /\ RLe(analysis.confidence, Rat(95, 100))
        /\ TotalScore = RInt(0) => analysis.confidence = Rat(1, 2)

\* calculate_prediction has run on factors of both sides: the confidence is
\* strictly between 0.5 and 0.9.
C2_Witness ==
    /\ last_op.op = "calculate_prediction"
    /\ RLt(RInt(0), analysis.home_score)
    /\ RLt(RInt(0), analysis.away_score)
    /\ RLt(Rat(1, 2), analysis.confidence)
    /\ RLt(analysis.confidence, Rat(9, 10))

Impact(f) == RAbs(RMul(f.value, f.weight))

\* p orders the indices of factors by descending impact, equal impacts in
\* their original order.
StableDescending(p, factors) ==
    \A i, j \in 1..Len(factors) :
        i < j =>
            \/ RLt(Impact(factors[p[j]]), Impact(factors[p[i]]))
            \/ /\ Impact(factors[p[j]]) = Impact(factors[p[i]])
               /\ p[i] < p[j]

\* C4: get_key_factors(analysis, top_n) returns at most top_n factors, and
\* the result is exactly the first top_n elements of analysis.factors ordered
\* by descending |weighted_value| with equal |weighted_value| kept in their
\* original order (top_n is a count, 0 or more).
C4_KeyFactorsStableTopN ==
    last_op.op = "get_key_factors" =>
        LET n == Len(analysis.factors)
            k == IF last_op.top_n < n THEN last_op.top_n ELSE n
        IN  /\ Len(key_factors) <= last_op.top_n
            /\ \E p \in Permutations(1..n) :
                /\ StableDescending(p, analysis.factors)
                /\ Len(key_factors) = k
                /\ \A i \in 1..k : key_factors[i] = analysis.factors[p[i]]

\* Two of three factors are returned; they differ, tie on impact, and the
\* factor evaluated first is not among them.
C4_Witness ==
    /\ last_op.op = "get_key_factors"
    /\ last_op.top_n = 2
    /\ Len(analysis.factors) = 3
    /\ Len(key_factors) = 2
    /\ key_factors[1] # key_factors[2]
    /\ Impact(key_factors[1]) = Impact(key_factors[2])
    /\ analysis.factors[1] \notin {key_factors[1], key_factors[2]}

(***************************************************************************)
(* Claims about the predictor, checked under SpecPredictor.                *)
(***************************************************************************)
\* The leg comes from a matchup of the request whose analysis confidence is
\* at least min_confidence.
FromConfidentMatchup(leg) ==
    \E i \in 1..Len(request.matchups) :
        /\ request.matchups[i].id = leg.matchup_id
        /\ RLe(request.min_confidence,
               analyze(request.matchups[i]).confidence)

LegsBoundedAndConfident ==
    /\ Len(parlay.legs) <= request.num_legs
    /\ \A i \in 1..Len(parlay.legs) : FromConfidentMatchup(parlay.legs[i])

\* C3 as stated: for any list of matchups and any num_legs and
\* min_confidence, generate_parlay returns at most num_legs legs, each from a
\* matchup whose analysis confidence is >= min_confidence.
C3_LegsBoundedAnyNumLegs == ~NoRequest => LegsBoundedAndConfident

\* C3 as amended: the same for any num_legs >= 0.
C3_LegsBoundedNonNegativeNumLegs ==
    (~NoRequest /\ request.num_legs >= 0) => LegsBoundedAndConfident

\* Two matchups reach min_confidence, one leg is asked for, and the leg
\* returned comes from the second matchup of the list.
C3_Witness ==
    /\ request.fn = "generate_parlay"
    /\ request.num_legs = 1
    /\ Len(request.matchups) = 2
    /\ request.min_confidence = Rat(6, 10)
    /\ \A i \in 1..2 :
           RLe(request.min_confidence, analyze(request.matchups[i]).confidence)
    /\ Len(parlay.legs) = 1
    /\ parlay.legs[1].matchup_id = request.matchups[2].id
    /\ request.matchups[1].id # request.matchups[2].id

(***************************************************************************)
(* Further claims about the factor analysis, checked under SpecFactors.    *)
(***************************************************************************)
ScoresNonNegative ==
    /\ RLe(RInt(0), analysis.home_score)
    /\ RLe(RInt(0), analysis.away_score)

\* What an add_factor step does, read from the states before and after it:
\* the factor added is the last of the new list.
AddFactorStep ==
    LET f == analysis'.factors[Len(analysis'.factors)]
        wv == RMul(f.value, f.weight)
    IN  /\ Len(analysis'.factors) = Len(analysis.factors) + 1
        /\ analysis'.factors = Append(analysis.factors, f)
        /\ RLe(analysis.home_score, analysis'.home_score)
        /\ RLe(analysis.away_score, analysis'.away_score)
        /\ RLt(RInt(0), wv) =>
               /\ analysis'.home_score = RAdd(analysis.home_score, wv)
               /\ analysis'.away_score = analysis.away_score
        /\ RLe(wv, RInt(0)) =>
               /\ analysis'.away_score = RAdd(analysis.away_score, RAbs(wv))
               /\ analysis'.home_score = analysis.home_score

\* C11: after any sequence of add_factor calls on a fresh FactorAnalysis,
\* home_score and away_score are non-negative and neither ever decreases: a
\* factor with weighted_value > 0 adds weighted_value to home_score only, a
\* factor with weighted_value <= 0 adds |weighted_value| to away_score only,
\* and the factor is appended to the factors list.
C11_ScoresOnlyGrow ==
    /\ []ScoresNonNegative
    /\ [][last_op'.op = "add_factor" => AddFactorStep]_vars

\* Three factors were added, the last one with weighted_value 0, and both
\* scores have grown.
C11_Witness ==
    /\ last_op.op = "add_factor"
    /\ Len(analysis.factors) = 3
    /\ analysis.factors[3].value = RInt(0)
    /\ RLt(RInt(0), analysis.home_score)
    /\ RLt(RInt(0), analysis.away_score)

\* C12: after analyze(matchup), predicted_winner is never unset: it is the
\* home team id if home_score > away_score and otherwise the away team id,
\* so equal scores (also 0 and 0, with confidence 0.5) give the away team.
C12_WinnerAlwaysSet ==
    last_op.op = "analyze" =>
        \E m \in Matchups :
            /\ m.id = analysis.matchup_id
            /\ analysis.predicted_winner # "None"
            /\ analysis.predicted_winner =
                   IF RLt(analysis.away_score, analysis.home_score)
                   THEN m.home_team.id
                   ELSE m.away_team.id
            /\ analysis.home_score = analysis.away_score =>
                   analysis.predicted_winner = m.away_team.id

\* analyze of a matchup whose factors are all 0: both scores 0, confidence
\* 0.5, and the away team predicted.
C12_Witness ==
    /\ last_op.op = "analyze"
    /\ analysis.matchup_id = GameEven.id
    /\ analysis.home_score = RInt(0)
    /\ analysis.away_score = RInt(0)
    /\ analysis.confidence = Rat(1, 2)
    /\ analysis.predicted_winner = GameEven.away_team.id

(***************************************************************************)
(* Further claims about the predictor, checked under SpecPredictor.        *)
(***************************************************************************)
\* The tier that the thresholds 0.70, 0.60 and 0.50, tried from the highest
\* down, give a score.
Tier(score) ==
    IF RLe(Rat(7, 10), score) THEN "very_high"
    ELSE IF RLe(Rat(6, 10), score) THEN "high"
    ELSE IF RLe(Rat(5, 10), score) THEN "medium"
    ELSE "low"

HasTierOfItsScore(l) == l.confidence = Tier(l.confidence_score)

LegReturned ==
    request.fn \in {"predict_spread", "predict_moneyline", "predict_total",
                    "get_confidence_level"}

\* C13: the confidence tier of every leg is a function of its
\* confidence_score alone (>= 0.70 very_high, else >= 0.60 high, else >= 0.50
\* medium, else low; the first threshold reached from the top wins), and
\* every leg that predict_spread, predict_moneyline or predict_total makes,
\* alone or inside a generated parlay, carries the tier of its own score.
C13_TierFollowsScore ==
    /\ LegReturned => HasTierOfItsScore(returned_leg)
    /\ \A i \in 1..Len(parlay.legs) : HasTierOfItsScore(parlay.legs[i])

\* predict_total on a matchup whose analysis confidence has the tier high:
\* the leg's own score, 0.85 of it, lies below 0.60 and the leg is medium.
C13_Witness ==
    /\ request.fn = "predict_total"
    /\ Tier(analyze(request.matchups[1]).confidence) = "high"
    /\ RLt(returned_leg.confidence_score, Rat(6, 10))
    /\ returned_leg.confidence = "medium"

\* C14: generate_safe_parlay returns at most 2 legs, every leg is a spread
\* or moneyline bet, every leg comes from a matchup whose analysis confidence
\* is at least 0.60, and every leg's confidence_score is at least 0.5.
C14_SafeParlay ==
    request.fn = "generate_safe_parlay" =>
        /\ Len(parlay.legs) <= 2
        /\ \A i \in 1..Len(parlay.legs) :
            /\ parlay.legs[i].bet_type \in {"spread", "moneyline"}
            /\ \E j \in 1..Len(request.matchups) :
                /\ request.matchups[j].id = parlay.legs[i].matchup_id
                /\ RLe(Rat(60, 100), analyze(request.matchups[j]).confidence)
            /\ RLe(Rat(1, 2), parlay.legs[i].confidence_score)

\* The safe preset on three different matchups that all reach 0.60: two
\* legs come back.
C14_Witness ==
    /\ request.fn = "generate_safe_parlay"
    /\ Len(request.matchups) = 3
    /\ \A j \in 1..3 :
           RLe(Rat(60, 100), analyze(request.matchups[j]).confidence)
    /\ \A j, k \in 1..3 :
           j # k => request.matchups[j].id # request.matchups[k].id
    /\ Len(parlay.legs) = 2

(***************************************************************************)
(* Claims about the selection-based Parlay, checked under SpecParlay.      *)
(***************************************************************************)
\* C15: after any sequence of add_selection, remove_selection and clear
\* calls on a selection-based Parlay that starts empty, no two selections in
\* the parlay have the same game_id.
C15_NoGameTwice ==
    \A i, j \in 1..Len(current_parlay.selections) :
        i # j => current_parlay.selections[i].game_id
                     # current_parlay.selections[j].game_id

\* A selection for a game of the full parlay, with other odds, has just been
\* rejected.
C15_Witness ==
    /\ parlay_op.op = "add_selection"
    /\ parlay_op.returned = "False"
    /\ Len(current_parlay.selections) = 2
    /\ \E i \in 1..2 :
        /\ current_parlay.selections[i].game_id = parlay_op.selection.game_id
        /\ current_parlay.selections[i].odds # parlay_op.selection.odds

\* An add_selection step, read from the states before and after it.
AddSelectionStep ==
    LET new == parlay_op'.selection
        present == \E i \in 1..Len(current_parlay.selections) :
                       current_parlay.selections[i].game_id = new.game_id
    IN  /\ present => /\ parlay_op'.returned = "False"
                       /\ current_parlay' = current_parlay
        /\ ~present => /\ parlay_op'.returned = "True"
                        /\ current_parlay'.selections =
                               Append(current_parlay.selections, new)
                        /\ current_parlay'.stake = current_parlay.stake

\* A remove_selection step: index k counts from 0.
RemoveSelectionStep ==
    LET k == parlay_op'.index
        n == Len(current_parlay.selections)
    IN  /\ (k < 0 \/ k >= n) => /\ parlay_op'.returned = "False"
                                 /\ current_parlay' = current_parlay
        /\ (0 <= k /\ k < n) =>
               /\ parlay_op'.returned = "True"
               /\ Len(current_parlay'.selections) = n - 1
               /\ \A i \in 1..(n - 1) :
                      current_parlay'.selections[i] =
                          current_parlay.selections[IF i <= k THEN i ELSE i + 1]
               /\ current_parlay'.stake = current_parlay.stake

SetStakeStep ==
    LET given == parlay_op'.stake
    IN  /\ RLt(given, RInt(0)) => current_parlay'.stake = RInt(0)
        /\ RLe(RInt(0), given) => current_parlay'.stake = given
        /\ current_parlay'.selections = current_parlay.selections

\* C17: after any sequence of set_stake calls stake is >= 0: a negative
\* argument sets stake to 0.0 and a non-negative argument sets it to exactly
\* that value; set_stake never changes the selections, and add_selection,
\* remove_selection and clear never change the stake.
C17_StakeNeverNegative ==
    /\ [](RLe(RInt(0), current_parlay.stake))
    /\ [][parlay_op'.op = "set_stake" => SetStakeStep]_vars
    /\ [][parlay_op'.op \in {"add_selection", "remove_selection", "clear"} =>
              current_parlay'.stake = current_parlay.stake]_vars

\* set_stake with a negative amount on a parlay that holds selections: the
\* stake is 0.
C17_Witness ==
    /\ parlay_op.op = "set_stake"
    /\ RLt(parlay_op.stake, RInt(0))
    /\ current_parlay.stake = RInt(0)
    /\ Len(current_parlay.selections) = 2

(***************************************************************************)
(* Claims about edge cases and about the selection of matchups, checked    *)
(* under SpecPredictor.                                                    *)
(***************************************************************************)
\* x is a number: no division by zero went into it.
Defined(x) == x[2] # 0

AnalysisDefined(a) ==
    /\ Defined(a.home_score)
    /\ Defined(a.away_score)
    /\ Defined(a.confidence)
    /\ a.predicted_winner # "None"
    /\ \A i \in 1..Len(a.factors) :
           Defined(a.factors[i].value) /\ Defined(a.factors[i].weight)

LegDefined(l) ==
    /\ Defined(l.confidence_score)
    /\ l.bet_type \in {"spread", "moneyline", "over", "under"}

ParlayGenerated ==
    request.fn \in {"generate_parlay", "generate_safe_parlay",
                    "generate_aggressive_parlay"}

\* C18: analyze, predict_spread, predict_moneyline, predict_total and
\* generate_parlay never raise for a well-formed matchup: teams without
\* games, no head-to-head games, absent injury reports, absent weather, a
\* total factor score of 0 and an empty matchup list all give defined values
\* (no division by zero, no error on an empty collection).
C18_NeverRaises ==
    ~NoRequest =>
        /\ \A i \in 1..Len(request.matchups) :
               AnalysisDefined(analyze(request.matchups[i]))
        /\ request.fn \in {"predict_spread", "predict_moneyline",
                            "predict_total"} => LegDefined(returned_leg)
        /\ \A i \in 1..Len(parlay.legs) : LegDefined(parlay.legs[i])
        /\ ParlayGenerated =>
               parlay.sport \in {"mixed"} \cup
                   {request.matchups[i].sport : i \in 1..Len(request.matchups)}

\* A parlay of two legs from a matchup of teams without games, meetings,
\* reports or weather, and a matchup whose factor scores are all 0.
C18_Witness ==
    /\ request.fn = "generate_parlay"
    /\ request.matchups = <<GameOpening, GameEven>>
    /\ win_percentage(GameOpening.home_team.stats) = RInt(0)
    /\ analyze(GameEven).home_score = RInt(0)
    /\ analyze(GameEven).away_score = RInt(0)
    /\ Len(parlay.legs) = 2
    /\ parlay.sport = "mixed"

Confidence(matchup) == analyze(matchup).confidence

EligibleIndices ==
    {k \in 1..Len(request.matchups) :
        RLe(request.min_confidence, Confidence(request.matchups[k]))}

\* f places the selected matchups in the list of the request: different
\* eligible positions, by descending confidence, equal confidence in the
\* order of the list, and nothing eligible that was left out is more
\* confident than a selected matchup.
PlacesSelection(f) ==
    /\ \A i \in DOMAIN f :
        /\ request.matchups[f[i]] = selected_matchups[i]
        /\ f[i] \in EligibleIndices
    /\ \A i, j \in DOMAIN f :
           i < j =>
               \/ RLt(Confidence(selected_matchups[j]),
                      Confidence(selected_matchups[i]))
               \/ /\ Confidence(selected_matchups[j])
                        = Confidence(selected_matchups[i])
                  /\ f[i] < f[j]
    /\ \A k \in EligibleIndices \ {f[i] : i \in DOMAIN f} :
           \A i \in DOMAIN f :
               ~RLt(Confidence(selected_matchups[i]),
                    Confidence(request.matchups[k]))

\* g places the legs in the selection, in order.
PlacesLegs(g) ==
    /\ \A i \in DOMAIN g :
           parlay.legs[i].matchup_id = selected_matchups[g[i]].id
    /\ \A i, j \in DOMAIN g : i < j => g[i] < g[j]

\* C20: generate_parlay selects the eligible matchups of highest analysis
\* confidence: the returned legs appear in non-increasing order of their
\* source matchup's analysis confidence, matchups of equal confidence keep
\* their input order, and no eligible matchup left out has strictly higher
\* confidence than one that was selected (how many are selected is the
\* subject of C3).
C20_MostConfidentSelected ==
    ParlayGenerated =>
        /\ \E f \in [1..Len(selected_matchups) -> 1..Len(request.matchups)] :
               PlacesSelection(f)
        /\ \E g \in [1..Len(parlay.legs) -> 1..Len(selected_matchups)] :
               PlacesLegs(g)
        /\ \A i, j \in 1..Len(parlay.legs) :
               i < j =>
                   \A m, n \in 1..Len(request.matchups) :
                       (/\ request.matchups[m].id = parlay.legs[i].matchup_id
                        /\ request.matchups[n].id = parlay.legs[j].matchup_id)
                       => RLe(Confidence(request.matchups[n]),
                              Confidence(request.matchups[m]))

\* Three different eligible matchups, the first less confident than the
\* other two, which tie: the two are selected in the order of the list and
\* each gives a leg.
C20_Witness ==
    /\ ParlayGenerated
    /\ Len(request.matchups) = 3
    /\ EligibleIndices = {1, 2, 3}
    /\ RLt(Confidence(request.matchups[1]), Confidence(request.matchups[2]))
    /\ Confidence(request.matchups[2]) = Confidence(request.matchups[3])
    /\ request.matchups[2].id # request.matchups[3].id
    /\ selected_matchups = <<request.matchups[2], request.matchups[3]>>
    /\ Len(parlay.legs) = 2
    /\ parlay.legs[1].matchup_id = request.matchups[2].id
    /\ parlay.legs[2].matchup_id = request.matchups[3].id

(***************************************************************************)
(* Claim about concurrent calls, checked under SpecWorkers.                *)
(***************************************************************************)
AllBetTypes == {"spread", "moneyline", "over", "under"}

\* What the calls have returned is what each returns when run alone.
ReturnsAsAlone ==
    \A t \in Threads :
        /\ workers[t].pc \in {"choose_best_bet", "done"} =>
               workers[t].result = analyze(workers[t].matchup)
        /\ workers[t].pc = "done" =>
               workers[t].legs = choose_best_bet(workers[t].matchup,
                                                 analyze(workers[t].matchup),
                                                 AllBetTypes)

\* A step of one call leaves the matchup of every call in progress, and
\* everything that belongs to another call, as it was.
StepOfOneCall ==
    /\ \A t \in Threads :
           workers[t].pc # "idle" => workers'[t].matchup = workers[t].matchup
    /\ \A t, u \in Threads :
           (t # u /\ workers'[t] # workers[t]) =>
               /\ workers'[u] = workers[u]
               /\ objects'[u] = objects[u]

\* C19: calls of analyze, predict_* and generate_parlay on one shared
\* predictor are independent: under any interleaving each call returns the
\* scores, confidence, predicted winner and legs it returns when run alone,
\* no call changes the analyzer's weights or the matchup it was given, and
\* no state written by one call is read by another.
C19_CallsIndependent ==
    /\ [](ReturnsAsAlone /\ weights = DEFAULT_WEIGHTS)
    /\ [][StepOfOneCall /\ weights' = weights]_vars

\* Two calls on different matchups are in progress at once: one has its
\* analysis back, the other has added factors and not yet predicted.
C19_Witness ==
    /\ workers["t1"].pc = "choose_best_bet"
    /\ workers["t2"].pc = "calculate_prediction"
    /\ workers["t1"].matchup.id # workers["t2"].matchup.id
    /\ workers["t1"].result = analyze(workers["t1"].matchup)
    /\ Len(objects["t2"].factors) = 6

(***************************************************************************)
(* Claims about the leg kept for a matchup and the sport label, checked    *)
(* under SpecPredictor.                                                    *)
(***************************************************************************)
\* The legs _choose_best_bet generates for a matchup under the bet types of
\* the request, in the order it generates them: spread, moneyline, total.
CandidateLegs(matchup) ==
    LET allowed == AllowedTypes(request.bet_types)
        total_leg == predict_total(matchup, analyze(matchup))
    IN  (IF "spread" \in allowed
         THEN <<predict_spread(matchup, analyze(matchup))>> ELSE <<>>)
        \o (IF "moneyline" \in allowed
            THEN <<predict_moneyline(matchup, analyze(matchup))>> ELSE <<>>)
        \o (IF total_leg.bet_type \in allowed THEN <<total_leg>> ELSE <<>>)

\* l is the first of the candidates of highest confidence_score.
FirstOfHighestScore(l, candidates) ==
    \E p \in 1..Len(candidates) :
        /\ candidates[p] = l
        /\ \A q \in 1..Len(candidates) :
               RLe(candidates[q].confidence_score, l.confidence_score)
        /\ \A q \in 1..(p - 1) :
               RLt(candidates[q].confidence_score, l.confidence_score)

\* g places every leg at a selected matchup whose first best candidate it
\* is, and the selected matchups without a leg have no candidate.
PlacesBestLegs(g) ==
    /\ PlacesLegs(g)
    /\ \A i \in DOMAIN g :
           FirstOfHighestScore(parlay.legs[i],
                               CandidateLegs(selected_matchups[g[i]]))
    /\ \A k \in 1..Len(selected_matchups) :
           k \notin {g[i] : i \in DOMAIN g} =>
               CandidateLegs(selected_matchups[k]) = <<>>

\* C21: for each selected matchup the leg generate_parlay keeps is the one
\* of highest confidence_score among the candidate legs of the allowed bet
\* types; of candidates with equal score the first generated is kept, in the
\* order spread, moneyline, total.
C21_BestLegKept ==
    ParlayGenerated =>
        \E g \in [1..Len(parlay.legs) -> 1..Len(selected_matchups)] :
            PlacesBestLegs(g)

\* A matchup whose spread and moneyline legs have the same score, both
\* allowed: the spread leg is kept.  Another whose spread leg is penalised:
\* the moneyline leg is kept.
C21_Witness ==
    /\ ParlayGenerated
    /\ Len(parlay.legs) = 2
    /\ selected_matchups[1] # selected_matchups[2]
    /\ \E i, j \in 1..2 :
        /\ parlay.legs[i].bet_type = "spread"
        /\ Len(CandidateLegs(selected_matchups[i])) >= 2
        /\ CandidateLegs(selected_matchups[i])[2].bet_type = "moneyline"
        /\ CandidateLegs(selected_matchups[i])[2].confidence_score
               = parlay.legs[i].confidence_score
        /\ parlay.legs[j].bet_type = "moneyline"
        /\ RLt(CandidateLegs(selected_matchups[j])[1].confidence_score,
               parlay.legs[j].confidence_score)

\* Every selected matchup, and there is one, has sport s.
CommonSport(s) ==
    /\ selected_matchups # <<>>
    /\ \A i \in 1..Len(selected_matchups) : selected_matchups[i].sport = s

\* C22: the sport label of a generated parlay is the common sport when all
\* selected matchups share one, and the literal "mixed" otherwise, also when
\* no matchup was selected.
C22_SportLabel ==
    ParlayGenerated =>
        /\ \A i \in 1..Len(selected_matchups) :
               CommonSport(selected_matchups[i].sport) =>
                   parlay.sport = selected_matchups[i].sport
        /\ (\A i \in 1..Len(selected_matchups) :
                ~CommonSport(selected_matchups[i].sport)) =>
               parlay.sport = "mixed"

\* Two different matchups of one sport are selected and the parlay carries
\* that sport.
C22_Witness ==
    /\ ParlayGenerated
    /\ Len(selected_matchups) = 2
    /\ selected_matchups[1].id # selected_matchups[2].id
    /\ CommonSport("NFL")
    /\ parlay.sport = "NFL"

(***************************************************************************)
(* Claims about the legs of predict_spread and predict_total, checked      *)
(* under SpecPredictor.                                                    *)
(***************************************************************************)
\* The analysis picks the home team.
HomePicked(a) == RLt(a.away_score, a.home_score)

\* The spread is beyond 7 points on the side of the picked team.
BigSpreadOnPick(matchup, a) ==
    \/ HomePicked(a) /\ RLt(matchup.odds.spread, RInt(-7))
    \/ ~HomePicked(a) /\ RLt(RInt(7), matchup.odds.spread)

SpreadLegFollows(l, matchup, a) ==
    /\ matchup.home_team.id # matchup.away_team.id
    /\ l.team_id = matchup.home_team.id <=> HomePicked(a)
    /\ l.team_id = matchup.away_team.id <=> ~HomePicked(a)
    /\ BigSpreadOnPick(matchup, a) =>
           l.confidence_score = RMul(a.confidence, Rat(9, 10))
    /\ ~BigSpreadOnPick(matchup, a) => l.confidence_score = a.confidence
    /\ a.confidence # RMul(a.confidence, Rat(9, 10))

OverIndicators(matchup) ==
    (IF matchup.home_team.stats.points_for > 425 THEN 1 ELSE 0)
    + (IF matchup.away_team.stats.points_for > 425 THEN 1 ELSE 0)
    + (IF matchup.home_team.stats.points_against > 391 THEN 1 ELSE 0)
    + (IF matchup.away_team.stats.points_against > 391 THEN 1 ELSE 0)
    - (IF /\ matchup.weather.present
          /\ ~matchup.weather.is_dome
          /\ affects_gameplay(matchup.weather)
       THEN 1 ELSE 0)

TotalLegFollows(l, matchup, a) ==
    /\ l.bet_type \in {"over", "under"}
    /\ l.bet_type = "over" <=> OverIndicators(matchup) >= 2
    /\ l.bet_type = "over" => l.odds = matchup.odds.over_odds
    /\ l.bet_type = "under" => l.odds = matchup.odds.under_odds
    /\ l.confidence_score = RMul(a.confidence, Rat(85, 100))

\* C24: predict_total returns OVER iff the net indicator count is at least
\* 2, the count being +1 for each team with points_for above 425, +1 for
\* each team with points_against above 391 and -1 when weather is present,
\* not a dome, and affects gameplay; the leg carries over_odds or under_odds
\* after its direction, and its confidence_score is the analysis confidence
\* times 0.85.
C24_TotalLeg ==
    request.fn = "predict_total" =>
        TotalLegFollows(returned_leg, request.matchups[1],
                        analyze(request.matchups[1]))

\* Three teams' figures are above the thresholds and open-air weather takes
\* one indicator away: OVER at exactly 2, with the over odds, which differ
\* from the under odds.
C24_Witness ==
    /\ request.fn = "predict_total"
    /\ PointsOf(request.matchups[1]) = <<426, 426, 392, 391>>
    /\ request.matchups[1].weather = Weather(FALSE, 20, 40, 10)
    /\ OverIndicators(request.matchups[1]) = 2
    /\ returned_leg.bet_type = "over"
    /\ request.matchups[1].odds.over_odds # request.matchups[1].odds.under_odds
    /\ returned_leg.odds = request.matchups[1].odds.over_odds

(***************************************************************************)
(* Claims about the confidence and about weather, checked under            *)
(* SpecFactors.                                                            *)
(***************************************************************************)
\* 0.5 + 0.8 * (max(home, away) / (home + away) - 0.5)
ScaledShare(home, away) ==
    RAdd(Rat(1, 2),
         RMul(Rat(8, 10), RSub(RDiv(RMax(home, away), RAdd(home, away)),
                               Rat(1, 2))))

ConfidenceFollows(a) ==
    /\ RLe(a.confidence, Rat(9, 10))
    /\ RLt(RInt(0), RAdd(a.home_score, a.away_score)) =>
           a.confidence = ScaledShare(a.home_score, a.away_score)
    /\ a.confidence = Rat(9, 10) <=>
           /\ RLt(RInt(0), RAdd(a.home_score, a.away_score))
           /\ a.home_score = RInt(0) \/ a.away_score = RInt(0)
    /\ a.confidence = Rat(1, 2) <=> a.home_score = a.away_score

\* C26: the confidence calculate_prediction produces never exceeds 0.9 (the
\* upper clamp of 0.95 is never reached): it is
\* 0.5 + 0.8 * (max(home, away) / (home + away) - 0.5) when the total is
\* positive, exactly 0.9 iff the total is positive and one of the two scores
\* is 0, and exactly 0.5 iff the two scores are equal.
C26_ConfidenceAtMostNineTenths == PredictionMade => ConfidenceFollows(analysis)

\* calculate_prediction has run on factors that all favour the home team:
\* the confidence is 0.9, the largest there is.
C26_Witness ==
    /\ last_op.op = "calculate_prediction"
    /\ Len(analysis.factors) >= 2
    /\ RLt(RInt(0), analysis.home_score)
    /\ analysis.away_score = RInt(0)
    /\ analysis.confidence = Rat(9, 10)

(***************************************************************************)
(* Claims about the aggressive preset, matchups without a leg and the      *)
(* picked team, checked under SpecPredictor.                               *)
(***************************************************************************)
Least(a, b) == IF a <= b THEN a ELSE b

\* The matchup passes the aggressive preset's bar of 0.45, and its total leg
\* scores strictly below its spread leg and its moneyline leg.
TotalLegBelowSides(matchup) ==
    /\ RLe(Rat(1, 2), analyze(matchup).confidence)
    /\ RLt(Rat(45, 100), analyze(matchup).confidence)
    /\ RLt(predict_total(matchup, analyze(matchup)).confidence_score,
           predict_spread(matchup, analyze(matchup)).confidence_score)
    /\ RLt(predict_total(matchup, analyze(matchup)).confidence_score,
           predict_moneyline(matchup, analyze(matchup)).confidence_score)

NoTotalLeg ==
    \A i \in 1..Len(parlay.legs) :
        parlay.legs[i].bet_type \in {"spread", "moneyline"}

\* C27: generate_aggressive_parlay on n matchups returns exactly min(5, n)
\* legs, none of them an over or under leg: its bar of 0.45 never discards a
\* matchup since confidence is at least 0.5, and a matchup's total leg
\* always scores strictly below its spread and moneyline legs, so whenever
\* spread or moneyline is allowed the total leg is never kept.
C27_AggressiveParlay ==
    /\ request.fn = "generate_aggressive_parlay" =>
           /\ Len(parlay.legs) = Least(5, Len(request.matchups))
           /\ Len(selected_matchups) = Len(parlay.legs)
           /\ NoTotalLeg
    /\ ParlayGenerated =>
           /\ \A i \in 1..Len(request.matchups) :
                  TotalLegBelowSides(request.matchups[i])
           /\ AllowedTypes(request.bet_types) \cap {"spread", "moneyline"} # {}
                  => NoTotalLeg

\* Six different matchups: five legs, none of them a total leg.
C27_Witness ==
    /\ request.fn = "generate_aggressive_parlay"
    /\ Len(request.matchups) = 6
    /\ Cardinality({request.matchups[i].id : i \in 1..6}) = 6
    /\ Len(parlay.legs) = 5
    /\ NoTotalLeg

\* The positions of the selected matchups that yield no eligible leg.
SkippedPositions ==
    {k \in 1..Len(selected_matchups) :
        CandidateLegs(selected_matchups[k]) = <<>>}

\* The positions of the request's matchups that cleared the bar.
ClearedTheBar ==
    {k \in 1..Len(request.matchups) :
        RLe(request.min_confidence, analyze(request.matchups[k]).confidence)}

\* C28: a selected matchup that yields no eligible leg (only over or only
\* under is allowed and predict_total picks the other) is skipped without
\* error and its slot is not refilled: the parlay has one leg per selected
\* matchup with a candidate, every leg is of a selected matchup, so it has
\* fewer than num_legs legs even when further matchups cleared the bar, and
\* the skipped matchup's sport still counts for the sport label.
C28_SkippedNotRefilled ==
    ParlayGenerated =>
        /\ Len(parlay.legs) = Len(selected_matchups) - Cardinality(SkippedPositions)
        /\ \A i \in 1..Len(parlay.legs) :
               /\ LegDefined(parlay.legs[i])
               /\ \E k \in 1..Len(selected_matchups) \ SkippedPositions :
                      selected_matchups[k].id = parlay.legs[i].matchup_id
        /\ \A k \in SkippedPositions :
               /\ parlay.sport \in {"mixed", selected_matchups[k].sport}
               /\ CommonSport(selected_matchups[k].sport) =>
                      parlay.sport = selected_matchups[k].sport

\* Only over is allowed and one leg is asked for; the most confident
\* matchup is selected, its total pick is under, and the parlay has no leg
\* although a second matchup cleared the bar and would have given an over
\* leg; the label is the skipped matchup's sport.
C28_Witness ==
    /\ request.fn = "generate_parlay"
    /\ AllowedTypes(request.bet_types) = {"over"}
    /\ request.num_legs = 1
    /\ Cardinality(ClearedTheBar) = 2
    /\ Len(selected_matchups) = 1
    /\ SkippedPositions = {1}
    /\ predict_total(selected_matchups[1],
                     analyze(selected_matchups[1])).bet_type = "under"
    /\ \E k \in ClearedTheBar :
           /\ request.matchups[k] # selected_matchups[1]
           /\ CandidateLegs(request.matchups[k]) # <<>>
    /\ parlay.legs = <<>>
    /\ parlay.sport = selected_matchups[1].sport

\* The leg is on the team the analysis predicts to win.
OnPredictedWinner(l, matchup, a) ==
    /\ a.predicted_winner \in {matchup.home_team.id, matchup.away_team.id}
    /\ l.team_id = a.predicted_winner

MoneylineOddsOfPick(l, matchup) ==
    /\ l.team_id = matchup.home_team.id => l.odds = matchup.odds.moneyline_home
    /\ l.team_id # matchup.home_team.id => l.odds = matchup.odds.moneyline_away

\* C29: for the analysis analyze(matchup) returns, the team_id of the
\* predict_spread leg and of the predict_moneyline leg both equal
\* analysis.predicted_winner, and the moneyline leg carries moneyline_home
\* exactly when that team is the home team: the legs and the analysis never
\* disagree about the picked team, equal home and away scores included.
C29_LegsOnPredictedWinner ==
    /\ request.fn = "predict_spread" =>
           OnPredictedWinner(returned_leg, request.matchups[1],
                             analyze(request.matchups[1]))
    /\ request.fn = "predict_moneyline" =>
           /\ OnPredictedWinner(returned_leg, request.matchups[1],
                                analyze(request.matchups[1]))
           /\ MoneylineOddsOfPick(returned_leg, request.matchups[1])
           /\ returned_leg.team_id
                  = predict_spread(request.matchups[1],
                                   analyze(request.matchups[1])).team_id

\* A moneyline leg for a matchup whose home and away scores are equal: it is
\* on the away team, the predicted winner.
C29_Witness ==
    /\ request.fn = "predict_moneyline"
    /\ analyze(request.matchups[1]).home_score
           = analyze(request.matchups[1]).away_score
    /\ analyze(request.matchups[1]).predicted_winner
           = request.matchups[1].away_team.id
    /\ returned_leg.team_id = request.matchups[1].away_team.id
    /\ returned_leg.odds = request.matchups[1].odds.moneyline_away

\* a is the analysis of the matchup and base the analysis of the same
\* matchup without weather.
SameButWeatherFactor(a, matchup, base) ==
    /\ a.home_score = base.home_score
    /\ a.away_score = base.away_score
    /\ a.confidence = base.confidence
    /\ a.predicted_winner = base.predicted_winner
    /\ Len(base.factors) = 5
    /\ base.factors[4].name = "home_advantage"
    /\ base.factors[5].name = "recent_form"
    /\ \A i \in 1..5 : base.factors[i].name # "weather"
    /\ ~matchup.weather.present => a.factors = base.factors
    /\ matchup.weather.present =>
           /\ Len(a.factors) = 6
           /\ SubSeq(a.factors, 1, 4) = SubSeq(base.factors, 1, 4)
           /\ a.factors[5].name = "weather"
           /\ a.factors[5].value = RInt(0)
           /\ a.factors[6] = base.factors[5]

\* C30: attaching weather to a matchup never changes the side analysis:
\* analyze returns the same home_score, away_score, confidence and
\* predicted_winner as without weather; the only difference is one more
\* factor, named weather, of value 0, after home_advantage and before
\* recent_form (6 factors instead of 5).
C30_WeatherLeavesAnalysis ==
    last_op.op = "analyze" =>
        SameButWeatherFactor(analysis, analyzed[1],
                             analyze(WithWeather(analyzed[1], NoWeather)))

\* analyze has run on an open-air matchup in weather that affects gameplay,
\* with factors on both sides: six factors, the fifth the weather factor.
C30_Witness ==
    /\ last_op.op = "analyze"
    /\ analyzed[1].weather.present
    /\ ~analyzed[1].weather.is_dome
    /\ affects_gameplay(analyzed[1].weather)
    /\ RLt(RInt(0), analysis.home_score)
    /\ RLt(RInt(0), analysis.away_score)
    /\ Len(analysis.factors) = 6
    /\ analysis.factors[5].name = "weather"
    /\ analysis.confidence
           = analyze(WithWeather(analyzed[1], NoWeather)).confidence

(***************************************************************************)
(* Claim about the TTL cache, checked under SpecCache.                     *)
(***************************************************************************)
\* The step is a lookup or a get call (time passing leaves lookup alone).
LookupStep == lookup' # lookup

\* Before the step the key has a value stored less than the TTL ago.
StoredWithinTTL(key, now) ==
    /\ cache[key].present
    /\ now - cache[key].timestamp < 300

\* A lookup hands out the stored value iff it was stored less than the TTL
\* ago, and then leaves the entry; any other lookup finds nothing and leaves
\* no entry; a get call then stores a freshly produced value and returns it.
LookupFollowsTTL(key, now) ==
    /\ lookup'.hit <=> StoredWithinTTL(key, now)
    /\ StoredWithinTTL(key, now) =>
           /\ lookup'.returned = cache[key].data
           /\ cache'[key] = cache[key]
    /\ (~StoredWithinTTL(key, now) /\ lookup'.op = "_get_cached") =>
           /\ lookup'.returned = NoData
           /\ ~cache'[key].present
    /\ (~StoredWithinTTL(key, now) /\ lookup'.op = "get") =>
           /\ lookup'.returned # NoData
           /\ lookup'.returned.produced_at \in {0, clock'}
           /\ cache'[key] = CacheEntry(lookup'.returned, clock')
    /\ \A other \in CacheKeys \ {key} : cache'[other] = cache[other]

\* A get call made less than the TTL after the value the previous get call
\* for the key returned was stored returns equal data.
GetsWithinTTLEqual(key, now) ==
    (/\ lookup'.op = "get"
     /\ served[key].called
     /\ now - served[key].stored_at < 300)
    => lookup'.returned = served[key].data

\* C25: in the data services' TTL cache a value stored under a key is
\* returned by a later lookup of the same key iff the lookup happens less
\* than the TTL (300 s for odds and sports data) after it was stored; a
\* lookup at or after the TTL deletes the entry, and the service then stores
\* a freshly produced value, so two get calls for the same key within the
\* TTL return equal data.
C25_CacheWithinTTL ==
    [][LookupStep =>
           /\ LookupFollowsTTL(lookup'.key, lookup'.at)
           /\ GetsWithinTTLEqual(lookup'.key, lookup'.at)]_vars

\* A head-to-head record stored at time 0 is asked for again exactly one
\* TTL later: the entry is found, it is not handed out, and a record
\* produced and stored now is returned.
C25_Witness ==
    /\ lookup.op = "get"
    /\ lookup.key = h2h_key
    /\ lookup.at = 300
    /\ lookup.found
    /\ ~lookup.hit
    /\ lookup.returned = mock_head_to_head(clock)
    /\ cache[h2h_key] = CacheEntry(lookup.returned, clock)
    /\ served[h2h_key] = Served(TRUE, lookup.returned, clock)

=============================================================================
